---- MODULE Spec2Model ----
(***************************************************************************)
(* IDS2 SOC pipeline: the supervisor (python_env/agent_mp.py) and its four *)
(* child workers (python_env/modules/*.py), communicating through one      *)
(* multiprocessing.Manager dictionary, shared_state.                       *)
(*                                                                         *)
(* Specifications:                                                         *)
(*   Spec         IDS2Agent.run() from its first line to its return, with  *)
(*                worker deaths, SIGINT/SIGTERM and the connectivity       *)
(*                checker's cycles.                                        *)
(*   SpecProber   run() with the connectivity checker's cycle taken one    *)
(*                write of the dictionary at a time.                       *)
(*   SpecGov      Phase G with the resource controller's loop taken one    *)
(*                write of the dictionary at a time.                       *)
(*   SpecSteady   Phase G with the loops of the resource controller, the   *)
(*                connectivity checker and the metrics server.             *)
(*   SpecThrottle ResourceController._calculate_throttle_level alone.      *)
(*   SpecCfg      ConfigManager construction, IDS2Agent.__init__ and the   *)
(*                start of the workers.                                    *)
(*   SpecApi      Phase G with the control API answering start and stop    *)
(*                requests.                                                *)
(*   SpecMut      ConfigManager with set_aws_opensearch_endpoint and       *)
(*                reload called at any time.                               *)
(*   SpecGreen    run() from a cold start in which nothing fails, under    *)
(*                fairness.                                                *)
(*   SpecRestart  Phase G's monitoring turns with the time between the     *)
(*                deaths of a worker.                                      *)
(*   SpecRead     Phase G with every route of the control API and the      *)
(*                metrics server reading the dictionary.                   *)
(*   SpecStop     the stop() of each worker handle, on a worker that ends  *)
(*                in time, late or not at all.                             *)
(*   SpecWait     run() against an endpoint that may answer every bulk     *)
(*                request with 403.                                        *)
(*   SpecVerify   Phase E with the stack status docker compose reports.    *)
(*   SpecCommit   Phase F with every outcome of the git commands.          *)
(*   SpecGc       Phase G with the resource controller's loop and its      *)
(*                clock.                                                   *)
(*   SpecWriters  run() with the loops of the resource controller and the  *)
(*                connectivity checker.                                    *)
(*   SpecHandles  Phase G with two request threads of the API server       *)
(*                restarting services.                                     *)
(*   SpecRender   run() from Phase B on, with what the managers returned.  *)
(*   SpecStart    Phase G with start() called on any worker at any time.   *)
(*   SpecTrack    Phase G with the connectivity checker and the metrics    *)
(*                server, under fairness.                                  *)
(***************************************************************************)
EXTENDS Integers, Sequences, FiniteSets, TLC

(***************************************************************************)
(* Bounds of the model.                                                    *)
(***************************************************************************)
MaxCrashes == 1      \* worker processes that die on their own, per run

MaxOffset == 1       \* how far from a value the code compares with a
                     \* CPU or RAM sample is taken

MaxPlaceholders == 2 \* configuration values that are not plain literals

MaxSecrets == 1      \* the same, in the files the endpoint mutator rewrites

MaxRecentCrashes == 3 \* worker deaths in a Phase G watched with a clock

(***************************************************************************)
(* Program constants.                                                      *)
(***************************************************************************)
Workers == {"RG", "CP", "TE", "CA"}
      \* RG ResourceController, CP ConnectivityChecker,
      \* TE MetricsServer, CA APIServer

StartOrder == <<"RG", "CP", "TE", "CA">>

\* Workers stopped in the order they were started.
StopOrderAsStarted == <<"RG", "CP", "TE", "CA">>

StopOrder == <<"CA", "TE", "CP", "RG">>

Phases == <<"A", "B", "C", "D", "E", "F", "G">>

Services == {"vector", "redis", "prometheus", "grafana"}

PhaseDMaxWait == 120

PhaseDPollInterval == 10

None == "None"

Endpoint == "https://demo.cluster.example"

Endpoints == {None, Endpoint}

NoExit == -1

\* _phase_g_monitor: time.sleep(30)
MonitorInterval == 30

\* One minute: two sleeps of the monitor loop.
CrashWindow == 2 * MonitorInterval

\* ResourceController.THROTTLE_*
THROTTLE_NONE == 0

THROTTLE_LIGHT == 1

THROTTLE_MEDIUM == 2

THROTTLE_HEAVY == 3

NoLevel == -1

\* _should_force_gc: "ram > 65.0 and time_since_gc > 30.0"
GcRamMark == 65

GcMinInterval == 30

\* self.check_interval = 2.0: the sleep between two samples, in seconds.
CheckInterval == 2

\* ConfigManager.get_resource_limits() of a configuration without a
\* "resources" override.
DefaultLimits ==
  [ max_cpu_percent      |-> 70,
    max_ram_percent      |-> 70,
    throttle_threshold_1 |-> 50,
    throttle_threshold_2 |-> 60,
    throttle_threshold_3 |-> 70 ]

VARIABLES
  pc,            \* position of the supervisor in run()
  cur,           \* index into StartOrder / StopOrder of the worker at hand
  rc,            \* the value run() is about to return
  exitCode,      \* the exit status of the process, NoExit before
  alive,         \* alive[w]: worker w's process exists and runs
  startLog,      \* workers whose process was launched, in order
  stopLog,       \* workers on which stop() acted, in order
  phaseLog,      \* phases entered, in order
  failed,        \* the phase (or step) whose failure ended run(), or None
  shutdown,      \* IDS2Agent.shutdown_event
  sigInG,        \* a signal was received while Phase G was running
  crashes,       \* number of worker deaths so far
  waited,        \* seconds Phase D has waited
  shared_state,  \* the Manager dictionary
  cfgEndpoint,   \* aws.opensearch_endpoint of the loaded configuration
  cpc,           \* position of the connectivity checker in its cycle
  dns_result,    \* its local dns_result[0]
  tls_result,    \* its local tls_result[0]
  bulk_answer,   \* what its bulk request of this cycle was answered
  bulk_attempt,  \* the bulk requests it has sent in this cycle
  gpc,           \* position of the resource controller in its cycle
  g_cpu,         \* its local cpu
  g_ram,         \* its local ram
  gauges,        \* the metrics of the metrics server's process
  limits,        \* ConfigManager.get_resource_limits()
  tl_cpu,        \* arguments and result of one call of
  tl_ram,        \*   _calculate_throttle_level (SpecThrottle)
  tl_level,
  config,        \* ConfigManager.config, the values that may be placeholders
  env,           \* the process environment
  cfg_pc,        \* position in IDS2Agent.__init__
  instances,     \* instances[c]: running instances of collaborator c
  api_log,       \* the last requests the control API answered, oldest first
  file,          \* the configuration file, one YAML scalar per key
  cfg_log,       \* the last calls of the endpoint mutator and of reload
  hist,          \* records kept beside the program:
                 \*   hist.deaths[w]: the deaths of worker w that may be
                 \*     less than a minute old, and whether three of them were
                 \*   hist.stop: the last call of a worker's stop()
                 \*   hist.git: what git did in Phase F
                 \*   hist.configs: what the managers returned in Phase B
                 \*   hist.gc: the resource controller's clock, its last
                 \*     sample and the times of its forced collections
  remote,        \* what the OpenSearch domain does with bulk requests
  inflight       \* inflight[t]: the service whose docker-compose command
                 \* request thread t of the API server is waiting for

ctlVars == <<pc, cur, rc, exitCode, phaseLog, failed, waited>>

handleVars == <<alive, startLog, stopLog>>

proberVars == <<cpc, dns_result, tls_result, bulk_answer, bulk_attempt>>

govVars == <<gpc, g_cpu, g_ram>>

procVars == <<handleVars, proberVars, govVars, gauges>>

apiVars == <<instances, api_log>>

fileVars == <<file, cfg_log>>

settledVars == <<cfgEndpoint, limits, tl_cpu, tl_ram, tl_level, config, env,
                 cfg_pc, apiVars, fileVars>>

\* What is kept beside the program, and what it runs against.
sideVars == <<hist, remote, inflight>>

confVars == <<settledVars, sideVars>>

sigVars == <<shutdown, sigInG>>

vars == <<pc, cur, rc, exitCode, alive, startLog, stopLog, phaseLog, failed,
          shutdown, sigInG, crashes, waited, shared_state, cfgEndpoint,
          cpc, dns_result, tls_result, bulk_answer, bulk_attempt, gpc,
          g_cpu, g_ram, gauges, limits,
          tl_cpu, tl_ram, tl_level, config, env, cfg_pc, instances, api_log,
          file, cfg_log, hist, remote, inflight>>

(***************************************************************************)
(* CPU and RAM percentages.                                                *)
(***************************************************************************)
Near(marks) == {m + d : m \in marks, d \in (0 - MaxOffset)..MaxOffset}

\* The samples and thresholds _calculate_throttle_level is applied to.
ThresholdValues ==
  Near({DefaultLimits.throttle_threshold_1, DefaultLimits.throttle_threshold_2,
        DefaultLimits.throttle_threshold_3})

Percents == {0, 100} \cup ThresholdValues

\* Resource limits with thresholds T1 < T2 < T3.
ThrottleLimits ==
  { [DefaultLimits EXCEPT !.throttle_threshold_1 = t[1],
                          !.throttle_threshold_2 = t[2],
                          !.throttle_threshold_3 = t[3]] :
      t \in {u \in ThresholdValues \X ThresholdValues \X ThresholdValues :
               u[1] < u[2] /\ u[2] < u[3]} }

\* The samples the resource controller's loop takes: none of the limits
\* reached, a limit reached, a limit exceeded.
GovPercents ==
  {0} \cup {DefaultLimits.max_cpu_percent + d : d \in 0..MaxOffset}

\* The samples of the loop where a whole iteration is one step: the limits
\* kept, a limit exceeded.
SteadyPercents == {0, DefaultLimits.max_cpu_percent + MaxOffset}

\* Seconds since the last forced collection, at the test of
\* _should_force_gc.
GcElapsed == {GcMinInterval, GcMinInterval + 1}

(***************************************************************************)
(* Configuration values that may name an environment variable, and the     *)
(* environment (config_manager.py, env_utils.py).                          *)
(***************************************************************************)
\* The keys _validate_config passes to validate_env_placeholder, in order.
ValidatedKeys ==
  << "opensearch_credentials.master_user",
     "opensearch_credentials.master_pass",
     "monitoring.grafana_admin_user",
     "monitoring.grafana_admin_password",
     "git.author_name",
     "git.author_email",
     "git.committer_name",
     "git.committer_email" >>

\* The key get_aws_config passes to resolve_env_placeholder.
AwsKeys == {"aws.iam_user_arn"}

ConfigKeys == {ValidatedKeys[i] : i \in 1..Len(ValidatedKeys)} \cup AwsKeys

\* The placeholder of a key, which is also the name of its environment
\* variable (the second and third arguments of every call are equal).
EnvVarOf ==
  ( "opensearch_credentials.master_user" :> "OPENSEARCH_MASTER_USER" ) @@
  ( "opensearch_credentials.master_pass" :> "OPENSEARCH_MASTER_PASS" ) @@
  ( "monitoring.grafana_admin_user"      :> "GRAFANA_ADMIN_USER" ) @@
  ( "monitoring.grafana_admin_password"  :> "GRAFANA_ADMIN_PASSWORD" ) @@
  ( "git.author_name"                    :> "GIT_AUTHOR_NAME" ) @@
  ( "git.author_email"                   :> "GIT_AUTHOR_EMAIL" ) @@
  ( "git.committer_name"                 :> "GIT_COMMITTER_NAME" ) @@
  ( "git.committer_email"                :> "GIT_COMMITTER_EMAIL" ) @@
  ( "aws.iam_user_arn"                   :> "IAM_USER_ARN" )

EnvVars == {EnvVarOf[k] : k \in ConfigKeys}

\* A value of the configuration file: a plain literal, the placeholder of
\* its key, or the name of the variable written as ENV:NAME.
Literal == "literal"

Placeholder(k) == EnvVarOf[k]

EnvForm(k) == "ENV:" \o EnvVarOf[k]

\* Whether the value of key k in the file names an environment variable.
NamesEnv(k, value) == value \in {Placeholder(k), EnvForm(k)}

\* os.getenv: None for a variable that is not set.
FromEnv == "value-from-environment"

EnvValues == {None, "", FromEnv}

\* Python's "not x" for what os.getenv returns.
Falsy(x) == x \in {None, ""}

\* The files in which exactly the keys of S are not plain literals, and the
\* environments that differ in the variables of those keys (the code reads
\* no other variable).
ConfigsOver(S) ==
  { [k \in ConfigKeys |-> IF k \in S THEN f[k] ELSE Literal] :
      f \in {g \in [S -> {Placeholder(k) : k \in S} \cup
                         {EnvForm(k) : k \in S}] :
               \A k \in S : NamesEnv(k, g[k])} }

EnvsOver(S) ==
  { [v \in EnvVars |-> IF v \in {EnvVarOf[k] : k \in S} THEN e[v] ELSE None] :
      e \in [{EnvVarOf[k] : k \in S} -> EnvValues] }

LiteralConfig == [k \in ConfigKeys |-> Literal]

NoEnv == [v \in EnvVars |-> None]

(***************************************************************************)
(* The configuration file: yaml.safe_load and yaml.safe_dump on the values *)
(* the model keeps (config_manager.py).                                    *)
(***************************************************************************)
EndpointKey == "aws.opensearch_endpoint"

FileKeys == ConfigKeys \cup {EndpointKey}

\* The plain scalars the YAML resolver reads as null.
NullTexts == {"null", "Null", "NULL", "~", ""}

\* yaml.safe_dump that writes every string as it is, with no quotes.
SafeDumpUnquoted(v) ==
  IF v = None
    THEN [style |-> "plain", text |-> "null"]
    ELSE [style |-> "plain", text |-> v]

\* yaml.safe_dump of one value: None is written null, and a string that a
\* plain scalar would not give back is written in quotes.
SafeDump(v) ==
  IF v = None
    THEN [style |-> "plain", text |-> "null"]
    ELSE IF v \in NullTexts
      THEN [style |-> "quoted", text |-> v]
      ELSE [style |-> "plain", text |-> v]

\* yaml.safe_load of one scalar.
SafeLoad(y) ==
  IF y.style = "plain" /\ y.text \in NullTexts THEN None ELSE y.text

\* ConfigManager.config as the model keeps it: the values that may be
\* placeholders and aws.opensearch_endpoint.
InMemory(c, endpoint) ==
  [k \in FileKeys |-> IF k = EndpointKey THEN endpoint ELSE c[k]]

\* _save_config: the whole of ConfigManager.config is dumped.
SaveConfig(c, endpoint) ==
  [k \in FileKeys |-> SafeDump(InMemory(c, endpoint)[k])]

\* _load_config: the whole file replaces ConfigManager.config.
LoadedConfig(f) == [k \in ConfigKeys |-> SafeLoad(f[k])]

LoadedEndpoint(f) == SafeLoad(f[EndpointKey])

\* Arguments of set_aws_opensearch_endpoint.
EndpointValues == {None, "", Endpoint}

(***************************************************************************)
(* The collaborators the control API names (api_server.py,                 *)
(* docker_manager.py, suricata_manager.py).                                *)
(***************************************************************************)
Collaborators == {"suricata"} \cup Services

\* The "service" member of a request body; None when there is none.
ServiceNames == Collaborators \cup {"ghost", "", None}

NoInstance == [c \in Collaborators |-> 0]

\* What runs once the compose stack is up: nothing in run() starts the
\* packet inspector.
StackUp == [c \in Collaborators |-> IF c \in Services THEN 1 ELSE 0]

(***************************************************************************)
(* The answers of the remote to the bulk request of the connectivity       *)
(* checker (connectivity_async.py).                                        *)
(***************************************************************************)
\* What the remote answers to the bulk POST: an HTTP status with a body, or
\* no answer at all.
BulkStatuses == {200, 201, 403}

BulkBodies == {"errors_false", "errors_true", "not_json"}

BulkFailures == {"timeout", "client_error"}

BulkAnswers ==
  [status : BulkStatuses, body : BulkBodies] \cup
  [status : {0}, body : BulkFailures]

\* The domain for the length of a run: it answers a bulk request in any
\* way, or it is reachable and refuses every bulk request with 403.
Remotes == {"any", "forbids"}

\* No request was sent.
NoAnswer == [status |-> 0, body |-> "not_sent"]

(***************************************************************************)
(* Shared state after IDS2Agent._init_shared_state and the constructors of *)
(* ResourceController and ConnectivityChecker have run.                    *)
(***************************************************************************)
InitSharedState(endpoint) ==
  [ cpu_percent             |-> 0,
    ram_percent             |-> 0,
    throttle_level          |-> THROTTLE_NONE,
    resource_ok             |-> TRUE,
    last_gc_time            |-> 0,
    dns_ok                  |-> FALSE,
    tls_ok                  |-> FALSE,
    opensearch_ok           |-> FALSE,
    aws_ready               |-> FALSE,
    last_connectivity_check |-> 0,
    opensearch_endpoint     |-> endpoint,
    vector_running          |-> FALSE,
    suricata_running        |-> FALSE,
    redis_running           |-> FALSE,
    api_server_running      |-> FALSE,
    pipeline_ok             |-> FALSE,
    events_processed        |-> 0,
    events_failed           |-> 0 ]

\* The metrics of a metrics server process before its first
\* _update_metrics: prometheus_client gauges and counters start at 0.
ZeroGauges ==
  [ cpu_usage |-> 0, ram_usage |-> 0, throttle_level |-> 0,
    dns_status |-> 0, tls_status |-> 0, opensearch_status |-> 0,
    aws_ready |-> 0, vector_status |-> 0, suricata_status |-> 0,
    redis_status |-> 0, pipeline_ok |-> 0,
    events_processed |-> 0, events_failed |-> 0, gc_forced |-> 0 ]

\* No worker has died.
NoCrash == [w \in Workers |-> [recent |-> <<>>, thrice |-> FALSE]]

\* stop() was not called.
NoStop == [worker |-> None, was_alive |-> FALSE, exited |-> FALSE,
           calls |-> <<>>]

\* git was not called.
NoGit == [ran |-> FALSE]

\* The resource controller has taken no sample; its clock reads 0, the
\* time of its construction.
NoGc == [now |-> 0, ram |-> 0, since |-> 0, ramp |-> TRUE, reclaims |-> <<>>]

\* Phase B was not run.
NoConfigs == [ran |-> FALSE]

NoHist ==
  [deaths |-> NoCrash, stop |-> NoStop, git |-> NoGit, gc |-> NoGc,
   configs |-> NoConfigs]

\* IDS2Agent constructed, run() not yet called, no worker process.
InitAgent ==
  /\ pc = "verify_git"
  /\ cur = 0
  /\ rc = NoExit
  /\ exitCode = NoExit
  /\ alive = [w \in Workers |-> FALSE]
  /\ startLog = <<>>
  /\ stopLog = <<>>
  /\ phaseLog = <<>>
  /\ failed = None
  /\ shutdown = FALSE
  /\ sigInG = FALSE
  /\ crashes = 0
  /\ waited = 0
  /\ cfgEndpoint \in Endpoints
  /\ shared_state = InitSharedState(cfgEndpoint)
  /\ cpc = "dead"
  /\ dns_result = FALSE
  /\ tls_result = FALSE
  /\ bulk_answer = NoAnswer
  /\ bulk_attempt = 0
  /\ gpc = "dead"
  /\ g_cpu = 0
  /\ g_ram = 0
  /\ gauges = ZeroGauges
  /\ instances = NoInstance
  /\ api_log = <<>>
  /\ cfg_log = <<>>
  /\ hist = NoHist

\* No call of _calculate_throttle_level under observation.
InitNoThrottleCall ==
  /\ limits = DefaultLimits
  /\ tl_cpu = 0
  /\ tl_ram = 0
  /\ tl_level = NoLevel

\* The file holds what ConfigManager.config holds before any getter ran.
InitFile == file = SaveConfig(config, cfgEndpoint)

\* The configuration was loaded and the managers were constructed.
InitConfigured ==
  /\ config = LiteralConfig
  /\ env = NoEnv
  /\ cfg_pc = "ready"
  /\ InitFile

\* Nothing is known of the domain.
AnyRemote == remote = "any"

\* The request threads of the API server: Flask's server handles each
\* request in a thread of its own, two of them here.
RequestThreads == {"request_1", "request_2"}

NoneInFlight == inflight = [t \in RequestThreads |-> None]

Init ==
  /\ InitAgent
  /\ InitNoThrottleCall
  /\ InitConfigured
  /\ AnyRemote
  /\ NoneInFlight

(***************************************************************************)
(* Worker handles: start(), stop(), is_alive() are the same code in the    *)
(* four worker classes.                                                    *)
(***************************************************************************)
\* The process of worker w begins its loop: Process(target=...).start().
Launched(w) ==
  /\ IF w = "CP"
       THEN /\ cpc' = "check"
            /\ dns_result' = FALSE /\ tls_result' = FALSE
            /\ bulk_answer' = NoAnswer
            /\ bulk_attempt' = 0
       ELSE UNCHANGED proberVars
  /\ IF w = "RG"
       THEN gpc' = "sample" /\ g_cpu' = 0 /\ g_ram' = 0
       ELSE UNCHANGED govVars
  /\ IF w = "TE" THEN gauges' = ZeroGauges ELSE UNCHANGED gauges

\* The process of worker w is gone, and its local variables with it.
Gone(w) ==
  /\ IF w = "CP"
       THEN /\ cpc' = "dead"
            /\ dns_result' = FALSE /\ tls_result' = FALSE
            /\ bulk_answer' = NoAnswer
            /\ bulk_attempt' = 0
       ELSE UNCHANGED proberVars
  /\ IF w = "RG"
       THEN gpc' = "dead" /\ g_cpu' = 0 /\ g_ram' = 0
       ELSE UNCHANGED govVars
  /\ UNCHANGED gauges

\* start() that tests "self.process" alone: a worker that was launched once
\* is never launched again.
WorkerStartOnce(w) ==
  IF \E i \in 1..Len(startLog) : startLog[i] = w
    THEN UNCHANGED procVars
    ELSE /\ alive' = [alive EXCEPT ![w] = TRUE]
         /\ startLog' = Append(startLog, w)
         /\ Launched(w)
         /\ UNCHANGED stopLog

\* <Worker>.start(): nothing when the process is alive, else a new process
\* running the worker's loop from its first line.
\* A start() that makes a new process whatever the previous one does.
WorkerStartAlways(w) ==
  /\ alive' = [alive EXCEPT ![w] = TRUE]
  /\ startLog' = Append(startLog, w)
  /\ Launched(w)
  /\ UNCHANGED stopLog

WorkerStart(w) ==
  IF alive[w]
    THEN UNCHANGED procVars
    ELSE /\ alive' = [alive EXCEPT ![w] = TRUE]
         /\ startLog' = Append(startLog, w)
         /\ Launched(w)
         /\ UNCHANGED stopLog

\* start() of worker w, called at any time.
StartCall(w) ==
  /\ WorkerStart(w)
  /\ UNCHANGED <<ctlVars, sigVars, crashes, shared_state, confVars>>

\* stop() without the kill after the join timed out: a worker that ignores
\* the terminate stays alive.
WorkerStopNoKill(w) ==
  IF ~alive[w]
    THEN UNCHANGED procVars
    ELSE \E exited \in BOOLEAN :
           /\ stopLog' = Append(stopLog, w)
           /\ IF exited
                THEN alive' = [alive EXCEPT ![w] = FALSE] /\ Gone(w)
                ELSE UNCHANGED <<alive, proberVars, govVars, gauges>>
           /\ UNCHANGED startLog

\* <Worker>.stop(): terminate, join(timeout), kill and join when still
\* alive; nothing when the process is not alive.
WorkerStop(w) ==
  IF ~alive[w]
    THEN UNCHANGED procVars
    ELSE /\ alive' = [alive EXCEPT ![w] = FALSE]
         /\ stopLog' = Append(stopLog, w)
         /\ Gone(w)
         /\ UNCHANGED startLog

\* stop() that kills after the join whether or not the process has ended.
StopCallsAlwaysKill(is_alive, exits) ==
  IF ~is_alive THEN <<>> ELSE <<"terminate", "join", "kill", "join">>

\* The calls <Worker>.stop(timeout) makes on its process, in order.
\* is_alive: the process exists and is alive at the first test; exits: it
\* ends within the timeout of the first join.
StopCalls(is_alive, exits) ==
  IF ~is_alive
    THEN <<>>
    ELSE IF exits
      THEN <<"terminate", "join">>
      ELSE <<"terminate", "join", "kill", "join">>

\* <Worker>.stop() called on worker w, from any caller at any time, with
\* what it did on record.
StopCall(w) ==
  /\ WorkerStop(w)
  /\ \E exits \in BOOLEAN :
       hist' = [hist EXCEPT
                  !.stop = [worker |-> w, was_alive |-> alive[w],
                            exited |-> exits,
                            calls |-> StopCalls(alive[w], exits)]]
  /\ UNCHANGED <<ctlVars, sigVars, crashes, shared_state, settledVars,
                 remote, inflight>>

\* A worker process dies on its own (killed from outside, or its loop ends
\* on an error).
Crash(w) ==
  /\ alive[w]
  /\ crashes < MaxCrashes
  /\ crashes' = crashes + 1
  /\ alive' = [alive EXCEPT ![w] = FALSE]
  /\ Gone(w)
  /\ UNCHANGED <<ctlVars, startLog, stopLog, sigVars, shared_state, confVars>>

\* IDS2Agent._signal_handler, on SIGINT or SIGTERM.
InPhaseG == pc \in {"g_head", "g_check", "g_sleep"}

Signal ==
  /\ pc # "done"
  /\ shutdown' = TRUE
  /\ sigInG' = (sigInG \/ InPhaseG)
  /\ UNCHANGED <<ctlVars, procVars, crashes, shared_state, confVars>>

(***************************************************************************)
(* IDS2Agent.run()                                                         *)
(***************************************************************************)
\* run() calling the connectivity wait before the stack is brought up.
AfterSwapped(p) ==
  CASE p = "A" -> "phaseB"
    [] p = "B" -> "phaseD"
    [] p = "C" -> "phaseE"
    [] p = "D" -> "phaseC"
    [] p = "E" -> "phaseF"
    [] p = "F" -> "phaseG"

\* The statement of run() that follows the successful return of phase p.
After(p) ==
  CASE p = "A" -> "phaseB"
    [] p = "B" -> "phaseC"
    [] p = "C" -> "phaseD"
    [] p = "D" -> "phaseE"
    [] p = "E" -> "phaseF"
    [] p = "F" -> "phaseG"

\* The value of the return statement that follows "Phase p failed", and of
\* the one in the except clause: the same for every p.
ReturnOnFailure(p) == 1

\* "Phase p failed": _stop_child_processes(), then return 1.
Fail(p) ==
  /\ pc' = "stop"
  /\ cur' = 1
  /\ rc' = ReturnOnFailure(p)
  /\ failed' = p

\* Phase p returned True.
Pass(p) ==
  /\ pc' = After(p)
  /\ UNCHANGED <<cur, rc, failed>>

Enter(p) == phaseLog' = Append(phaseLog, p)

\* _verify_git_branch always returns True.
VerifyGitBranch ==
  /\ cfg_pc = "ready"
  /\ pc = "verify_git"
  /\ pc' = "start"
  /\ cur' = 1
  /\ UNCHANGED <<rc, exitCode, phaseLog, failed, waited, procVars, sigVars,
                 crashes, shared_state, confVars>>

\* _start_child_processes: <worker>.start() for the worker at hand.  A
\* start() that raises is caught by the function's except clause, which
\* returns False; run() then returns 1.
StartChild ==
  /\ pc = "start"
  /\ \E launched \in BOOLEAN :
       IF launched
         THEN /\ WorkerStart(StartOrder[cur])
              /\ pc' = "started"
              /\ UNCHANGED <<cur, rc, exitCode, failed>>
         ELSE /\ pc' = "done"
              /\ exitCode' = 1
              /\ failed' = "start"
              /\ UNCHANGED <<cur, rc, procVars>>
  /\ UNCHANGED <<phaseLog, waited, sigVars, crashes, shared_state, confVars>>

\* _start_child_processes: after time.sleep(1), the is_alive() test of the
\* worker at hand; after the fourth worker, api_server_running and return
\* True.
CheckChild ==
  /\ pc = "started"
  /\ IF alive[StartOrder[cur]]
       THEN IF cur < Len(StartOrder)
              THEN /\ pc' = "start"
                   /\ cur' = cur + 1
                   /\ UNCHANGED <<exitCode, failed, shared_state>>
              ELSE /\ pc' = "phaseA"
                   /\ shared_state' =
                        [shared_state EXCEPT !.api_server_running = TRUE]
                   /\ UNCHANGED <<cur, exitCode, failed>>
       ELSE /\ pc' = "done"
            /\ exitCode' = 1
            /\ failed' = "start"
            /\ UNCHANGED <<cur, shared_state>>
  /\ UNCHANGED <<rc, phaseLog, waited, procVars, sigVars, crashes, confVars>>

\* _phase_a_verify_aws
PhaseA ==
  /\ pc = "phaseA"
  /\ Enter("A")
  /\ \E credentials \in BOOLEAN, domain_name \in BOOLEAN,
        domain_exists \in BOOLEAN, endpoint \in Endpoints :
       IF credentials /\ domain_name /\ domain_exists /\ endpoint # None
         THEN /\ shared_state' =
                   [shared_state EXCEPT !.opensearch_endpoint = endpoint]
              /\ Pass("A")
         ELSE /\ Fail("A")
              /\ UNCHANGED shared_state
  /\ UNCHANGED <<exitCode, waited, procVars, sigVars, crashes, confVars>>

\* _phase_b_generate_configs: a failed Suricata validation is only logged.
\* What generate_config() and validate_config() of the Suricata manager
\* and of the Vector manager return.
ConfigResults ==
  [suricata_generated : BOOLEAN, suricata_valid : BOOLEAN,
   vector_generated : BOOLEAN, vector_valid : BOOLEAN]

\* _phase_b_generate_configs with these results: a False of
\* suricata_manager.validate_config() is logged as a warning and the phase
\* goes on.
PhaseBStep(results) ==
  /\ pc = "phaseB"
  /\ Enter("B")
  /\ IF /\ results.suricata_generated
        /\ results.vector_generated
        /\ results.vector_valid
       THEN Pass("B")
       ELSE Fail("B")
  /\ UNCHANGED <<exitCode, waited, procVars, sigVars, crashes, shared_state,
                 settledVars, remote, inflight>>

PhaseB == \E results \in ConfigResults : PhaseBStep(results) /\ UNCHANGED hist

\* The same, the results being kept.
PhaseBWatched ==
  \E results \in ConfigResults :
    /\ PhaseBStep(results)
    /\ hist' = [hist EXCEPT !.configs = [ran |-> TRUE, got |-> results]]

\* _phase_c_start_docker
PhaseC ==
  /\ pc = "phaseC"
  /\ Enter("C")
  /\ \E compose_ok \in BOOLEAN, stack_started \in BOOLEAN,
        stack_healthy \in BOOLEAN, stack_status \in [Services -> BOOLEAN] :
       IF compose_ok /\ stack_started /\ stack_healthy
         THEN /\ shared_state' =
                   [shared_state EXCEPT
                      !.vector_running = stack_status["vector"],
                      !.redis_running = stack_status["redis"]]
              /\ Pass("C")
         ELSE /\ Fail("C")
              /\ UNCHANGED shared_state
  /\ UNCHANGED <<exitCode, waited, procVars, sigVars, crashes, confVars>>

\* _phase_d_wait_connectivity: start of the wait.
PhaseD ==
  /\ pc = "phaseD"
  /\ Enter("D")
  /\ pc' = "d_poll"
  /\ waited' = 0
  /\ UNCHANGED <<cur, rc, exitCode, failed, procVars, sigVars, crashes,
                 shared_state, confVars>>

\* _phase_d_wait_connectivity without the loop: one reading of aws_ready
\* decides.
PhaseDPollOnce ==
  /\ pc = "d_poll"
  /\ IF shared_state.aws_ready THEN Pass("D") ELSE Fail("D")
  /\ UNCHANGED <<exitCode, phaseLog, waited, procVars, sigVars, crashes,
                 shared_state, confVars>>

\* _phase_d_wait_connectivity: one iteration of the while loop, or the
\* timeout after it.
PhaseDPoll ==
  /\ pc = "d_poll"
  /\ IF waited < PhaseDMaxWait
       THEN IF shared_state.aws_ready
              THEN Pass("D") /\ UNCHANGED waited
              ELSE /\ waited' = waited + PhaseDPollInterval
                   /\ UNCHANGED <<pc, cur, rc, failed>>
       ELSE Fail("D") /\ UNCHANGED waited
  /\ UNCHANGED <<exitCode, phaseLog, procVars, sigVars, crashes, shared_state,
                 confVars>>

\* DockerManager.get_stack_status: is_service_running for each service of
\* self.services.  A service reported as running is running; one that runs
\* is reported as not running when the compose command fails.
StackStatuses(running) ==
  {status \in [Services -> BOOLEAN] :
     \A s \in Services : status[s] => running[s] > 0}

\* _phase_e_verify_pipeline, get_stack_status returning one of statuses.
PhaseEOver(statuses) ==
  /\ pc = "phaseE"
  /\ Enter("E")
  /\ \E stack_status \in statuses :
       IF (\A s \in Services : stack_status[s]) /\ shared_state.aws_ready
         THEN /\ shared_state' = [shared_state EXCEPT !.pipeline_ok = TRUE]
              /\ Pass("E")
         ELSE /\ Fail("E")
              /\ UNCHANGED shared_state
  /\ UNCHANGED <<exitCode, waited, procVars, sigVars, crashes, confVars>>

\* _phase_e_verify_pipeline, whatever the collaborators do.
PhaseE == PhaseEOver([Services -> BOOLEAN])

\* _phase_e_verify_pipeline, the collaborators being watched.
PhaseEWatched == PhaseEOver(StackStatuses(instances))

\* GitWorkflow.required_branch
RequiredBranch == "dev"

\* What git does during one Phase F.  status, status_again: "git status
\* --short" at the two calls of has_changes, "failed" when the command
\* exits with an error (no repository) or cannot be run; branch: "git
\* branch --show-current", None when it fails or prints nothing; added,
\* committed, pushed: the command exits with 0.
GitOutcomes ==
  [ status       : {"clean", "dirty", "failed"},
    status_again : {"clean", "dirty", "failed"},
    branch       : {RequiredBranch, "main", None},
    added        : BOOLEAN,
    committed    : BOOLEAN,
    pushed       : BOOLEAN ]

\* GitWorkflow.has_changes: get_status returns None when the command
\* failed.
HasChanges(status) == status = "dirty"

\* GitWorkflow.commit_and_push
CommitAndPush(git) ==
  IF git.branch # RequiredBranch
    THEN FALSE
    ELSE IF ~HasChanges(git.status_again)
      THEN TRUE
      ELSE git.added /\ git.committed /\ git.pushed

\* A get_status that lets the error of the command through.
PhaseFRaisesOnStatus(git) == git.status = "failed"

\* An exception leaves _phase_f_commit_changes: never, get_status,
\* get_current_branch, add_all, commit and push each catch Exception.
PhaseFRaises(git) == FALSE

\* _phase_f_commit_changes: the value it returns.
PhaseFReturns(git) ==
  IF ~HasChanges(git.status)
    THEN TRUE
    ELSE IF ~CommitAndPush(git) THEN TRUE ELSE TRUE

\* "self._phase_f_commit_changes()" in run(): the value is dropped; an
\* exception would reach the except clause of run().
PhaseFStep(git) ==
  /\ pc = "phaseF"
  /\ Enter("F")
  /\ IF PhaseFRaises(git) THEN Fail("F") ELSE Pass("F")
  /\ UNCHANGED <<exitCode, waited, procVars, sigVars, crashes, shared_state,
                 settledVars, remote,
                 inflight>>

\* _phase_f_commit_changes
PhaseF == \E git \in GitOutcomes : PhaseFStep(git) /\ UNCHANGED hist

\* PhaseF, what git did put on record.
PhaseFWatched ==
  \E git \in GitOutcomes :
    /\ PhaseFStep(git)
    /\ hist' = [hist EXCEPT
                  !.git = [ran |-> TRUE, did |-> git,
                           returned |-> PhaseFReturns(git)]]

\* _phase_g_monitor: the banner, before the loop.
PhaseG ==
  /\ pc = "phaseG"
  /\ Enter("G")
  /\ pc' = "g_head"
  /\ UNCHANGED <<cur, rc, exitCode, failed, waited, procVars, sigVars,
                 crashes, shared_state, confVars>>

\* _phase_g_monitor: the test of the while loop.  When the event is set the
\* function returns and run() goes on to _stop_child_processes, return 0.
MonitorHead ==
  /\ pc = "g_head"
  /\ IF shutdown
       THEN pc' = "stop" /\ cur' = 1 /\ rc' = 0
       ELSE pc' = "g_check" /\ cur' = 1 /\ UNCHANGED rc
  /\ UNCHANGED <<exitCode, phaseLog, failed, waited, procVars, sigVars,
                 crashes, shared_state, confVars>>

\* _phase_g_monitor: "if not <worker>.is_alive(): <worker>.start()" for the
\* worker at hand.  A start() that raises leaves the loop (only
\* KeyboardInterrupt is caught there) and reaches the except clause of
\* run(): _stop_child_processes(), return 1.
MonitorCheck ==
  /\ pc = "g_check"
  /\ LET w == StartOrder[cur] IN
       IF alive[w]
         THEN /\ pc' = IF cur < Len(StartOrder) THEN "g_check" ELSE "g_sleep"
              /\ cur' = IF cur < Len(StartOrder) THEN cur + 1 ELSE cur
              /\ UNCHANGED <<rc, failed, procVars, shared_state>>
         ELSE \E launched \in BOOLEAN :
                IF launched
                  THEN /\ WorkerStart(w)
                       /\ shared_state' =
                            IF w = "CA"
                              THEN [shared_state EXCEPT
                                      !.api_server_running = TRUE]
                              ELSE shared_state
                       /\ pc' = IF cur < Len(StartOrder)
                                  THEN "g_check" ELSE "g_sleep"
                       /\ cur' = IF cur < Len(StartOrder) THEN cur + 1 ELSE cur
                       /\ UNCHANGED <<rc, failed>>
                  ELSE /\ Fail("restart")
                       /\ UNCHANGED <<procVars, shared_state>>
  /\ UNCHANGED <<exitCode, phaseLog, waited, sigVars, crashes, confVars>>

\* _phase_g_monitor: the status line and time.sleep(30).
MonitorSleep ==
  /\ pc = "g_sleep"
  /\ pc' = "g_head"
  /\ UNCHANGED <<cur, rc, exitCode, phaseLog, failed, waited, procVars,
                 sigVars, crashes, shared_state, confVars>>

\* The deaths of a worker that may still be less than a minute old after
\* one more sleep of the monitor loop.  An age counts the sleeps since the
\* death: the time that passed is more than the age.
Aged(recent) ==
  SelectSeq([i \in 1..Len(recent) |-> recent[i] + MonitorInterval],
            LAMBDA age : age < CrashWindow)

\* MonitorSleep, the deaths on record growing older by the sleep.
TimedSleep ==
  /\ pc = "g_sleep"
  /\ pc' = "g_head"
  /\ hist' =
       [hist EXCEPT
          !.deaths = [w \in Workers |->
                        [hist.deaths[w] EXCEPT
                           !.recent = Aged(hist.deaths[w].recent)]]]
  /\ UNCHANGED <<cur, rc, exitCode, phaseLog, failed, waited, procVars,
                 sigVars, crashes, shared_state, settledVars, remote,
                 inflight>>

\* Crash(w), the death put on record.
TimedCrash(w) ==
  /\ alive[w]
  /\ crashes < MaxRecentCrashes
  /\ crashes' = crashes + 1
  /\ alive' = [alive EXCEPT ![w] = FALSE]
  /\ Gone(w)
  /\ hist' =
       [hist EXCEPT
          !.deaths[w] = [recent |-> Append(@.recent, 0),
                         thrice |-> @.thrice \/ Len(@.recent) >= 2]]
  /\ UNCHANGED <<ctlVars, startLog, stopLog, sigVars, shared_state,
                 settledVars, remote,
                 inflight>>

\* _stop_child_processes: "if <worker>.is_alive(): <worker>.stop()" for the
\* worker at hand; after the last one run() returns rc.
StopChild ==
  /\ pc = "stop"
  /\ LET w == StopOrder[cur] IN
       IF alive[w] THEN WorkerStop(w) ELSE UNCHANGED procVars
  /\ IF cur < Len(StopOrder)
       THEN cur' = cur + 1 /\ UNCHANGED <<pc, exitCode>>
       ELSE pc' = "done" /\ exitCode' = rc /\ UNCHANGED cur
  /\ UNCHANGED <<rc, phaseLog, failed, waited, sigVars, crashes, shared_state,
                 confVars>>

Supervisor ==
  \/ VerifyGitBranch
  \/ StartChild
  \/ CheckChild
  \/ PhaseA
  \/ PhaseB
  \/ PhaseC
  \/ PhaseD
  \/ PhaseDPoll
  \/ PhaseE
  \/ PhaseF
  \/ PhaseG
  \/ MonitorHead
  \/ MonitorCheck
  \/ MonitorSleep
  \/ StopChild

(***************************************************************************)
(* ConnectivityChecker (Process #3)                                        *)
(***************************************************************************)
\* The bulk request sent whatever the DNS and TLS checks gave.
AnswersAfterAlways(dns, tls) == BulkAnswers

\* The answers there can be in a cycle whose DNS and TLS checks gave dns
\* and tls: without both no request is sent.
AnswersAfter(dns, tls) == IF dns /\ tls THEN BulkAnswers ELSE {NoAnswer}

\* _check_opensearch_bulk(endpoint)[0]: True on status 200 or 201 once
\* response.json() has parsed the body; every exception is caught inside
\* the function and gives False.
CheckOpensearchBulk(answer) ==
  /\ answer.status \in {200, 201}
  /\ answer.body # "not_json"

\* @retry(stop=stop_after_attempt(3), ...) on _check_opensearch_bulk.
StopAfterAttempt == 3

\* retry_if_exception_type((aiohttp.ClientError, asyncio.TimeoutError)): the
\* decorator calls the function again when one of these is raised out of
\* it.  The body of the function is one try whose handlers, except
\* asyncio.TimeoutError and except Exception, both return (False, ...), so
\* no answer makes it raise.
BulkRaises(answer) == FALSE

\* The writes of _run_all_checks, in program order; each takes the
\* dictionary before the write and gives the dictionary after it.
WriteDns(state, dns) == [state EXCEPT !.dns_ok = dns]

WriteTls(state, tls) == [state EXCEPT !.tls_ok = tls]

\* The bulk test runs only when dns_ok and tls_ok read back true.
WriteBulk(state, answer) ==
  [state EXCEPT !.opensearch_ok =
     IF state.dns_ok /\ state.tls_ok THEN CheckOpensearchBulk(answer)
                                    ELSE FALSE]

\* The checker also keeping pipeline_ok in step with aws_ready.
WriteReadyAndPipeline(state) ==
  [state EXCEPT
     !.aws_ready = state.dns_ok /\ state.tls_ok /\ state.opensearch_ok,
     !.pipeline_ok =
       @ /\ state.dns_ok /\ state.tls_ok /\ state.opensearch_ok]

\* aws_ready written from the DNS and TLS results alone.
WriteReadyNoBulk(state) ==
  [state EXCEPT !.aws_ready = state.dns_ok /\ state.tls_ok]

WriteReady(state) ==
  [state EXCEPT !.aws_ready =
     state.dns_ok /\ state.tls_ok /\ state.opensearch_ok]

\* last_connectivity_check = time.time(): a positive time stamp, which no
\* code reads; 1 stands for it.
WriteCheckTime(state) == [state EXCEPT !.last_connectivity_check = 1]

\* _run_all_checks from its first line to its return.  Without an endpoint
\* in aws_config it writes aws_ready and returns.
RunAllChecks(state, endpoint, dns, tls, answer) ==
  IF endpoint = None
    THEN [state EXCEPT !.aws_ready = FALSE]
    ELSE WriteCheckTime(WriteReady(WriteBulk(
           WriteTls(WriteDns(state, dns), tls), answer)))

\* One cycle of _monitor_loop: _run_all_checks and the sleep after it.
ProberCycle ==
  /\ alive["CP"]
  /\ cpc = "check"
  /\ \E dns \in BOOLEAN, tls \in BOOLEAN :
       \E answer \in AnswersAfter(dns, tls) :
         shared_state' =
           RunAllChecks(shared_state, cfgEndpoint, dns, tls, answer)
  /\ UNCHANGED <<ctlVars, procVars, sigVars, crashes, confVars>>

\* ProberCycle against a domain that resolves, completes the TLS handshake
\* and answers the bulk request with 403.
ProberCycleForbidden ==
  /\ alive["CP"]
  /\ cpc = "check"
  /\ \E body \in BulkBodies :
       shared_state' =
         RunAllChecks(shared_state, cfgEndpoint, TRUE, TRUE,
                      [status |-> 403, body |-> body])
  /\ UNCHANGED <<ctlVars, procVars, sigVars, crashes, confVars>>

\* The same cycle, one write of the dictionary at a time.
ProberCheck ==
  /\ alive["CP"]
  /\ cpc = "check"
  /\ IF cfgEndpoint = None
       THEN /\ shared_state' =
                 RunAllChecks(shared_state, cfgEndpoint, FALSE, FALSE,
                              [status |-> 0, body |-> "timeout"])
            /\ cpc' = "sleep"
            /\ UNCHANGED <<dns_result, tls_result, bulk_answer,
                           bulk_attempt>>
       ELSE /\ \E dns \in BOOLEAN, tls \in BOOLEAN :
                 dns_result' = dns /\ tls_result' = tls
            /\ UNCHANGED <<bulk_answer, bulk_attempt>>
            /\ cpc' = "write_dns"
            /\ UNCHANGED shared_state
  /\ UNCHANGED <<ctlVars, handleVars, govVars, gauges, sigVars, crashes,
                 confVars>>

ProberWriteDns ==
  /\ alive["CP"]
  /\ cpc = "write_dns"
  /\ shared_state' = WriteDns(shared_state, dns_result)
  /\ cpc' = "write_tls"
  /\ UNCHANGED <<ctlVars, handleVars, govVars, gauges, sigVars, crashes,
                 confVars, dns_result, tls_result,
                 bulk_answer, bulk_attempt>>

ProberWriteTls ==
  /\ alive["CP"]
  /\ cpc = "write_tls"
  /\ shared_state' = WriteTls(shared_state, tls_result)
  /\ cpc' = "bulk"
  /\ UNCHANGED <<ctlVars, handleVars, govVars, gauges, sigVars, crashes,
                 confVars, dns_result, tls_result,
                 bulk_answer, bulk_attempt>>

\* One call of _check_opensearch_bulk under its @retry decorator: the
\* decorator calls again while the call raises and fewer than
\* StopAfterAttempt calls were made.
ProberBulk ==
  /\ alive["CP"]
  /\ cpc = "bulk"
  /\ \E answer \in AnswersAfter(shared_state.dns_ok, shared_state.tls_ok) :
       /\ bulk_answer' = answer
       /\ bulk_attempt' = IF answer = NoAnswer THEN 0 ELSE bulk_attempt + 1
       /\ IF BulkRaises(answer) /\ bulk_attempt + 1 < StopAfterAttempt
            THEN /\ cpc' = "bulk"
                 /\ UNCHANGED shared_state
            ELSE /\ cpc' = "write_ready"
                 /\ shared_state' = WriteBulk(shared_state, answer)
  /\ UNCHANGED <<ctlVars, handleVars, govVars, gauges, sigVars, crashes,
                 confVars, dns_result, tls_result>>

ProberWriteReady ==
  /\ alive["CP"]
  /\ cpc = "write_ready"
  /\ shared_state' = WriteReady(shared_state)
  /\ cpc' = "write_time"
  /\ UNCHANGED <<ctlVars, handleVars, govVars, gauges, sigVars, crashes,
                 confVars, dns_result, tls_result,
                 bulk_answer, bulk_attempt>>

\* The last write; the function returns and its locals are gone.
ProberWriteTime ==
  /\ alive["CP"]
  /\ cpc = "write_time"
  /\ shared_state' = WriteCheckTime(shared_state)
  /\ cpc' = "sleep"
  /\ dns_result' = FALSE
  /\ tls_result' = FALSE
  /\ bulk_answer' = NoAnswer
  /\ bulk_attempt' = 0
  /\ UNCHANGED <<ctlVars, handleVars, govVars, gauges, sigVars, crashes,
                 confVars>>

\* _monitor_loop: asyncio.sleep(check_interval), then the next cycle.
ProberSleep ==
  /\ alive["CP"]
  /\ cpc = "sleep"
  /\ cpc' = "check"
  /\ UNCHANGED <<ctlVars, handleVars, govVars, gauges, sigVars, crashes,
                 shared_state, confVars, dns_result, tls_result,
                 bulk_answer, bulk_attempt>>

ProberSteps ==
  \/ ProberCheck
  \/ ProberWriteDns
  \/ ProberWriteTls
  \/ ProberBulk
  \/ ProberWriteReady
  \/ ProberWriteTime
  \/ ProberSleep

(***************************************************************************)
(* ResourceController (Process #2)                                         *)
(***************************************************************************)
\* _calculate_throttle_level comparing with ">" where the code has ">=".
CalculateThrottleLevelStrict(lim, cpu, ram) ==
  LET max_usage == IF cpu >= ram THEN cpu ELSE ram IN
    IF max_usage > lim.throttle_threshold_3 THEN THROTTLE_HEAVY
    ELSE IF max_usage > lim.throttle_threshold_2 THEN THROTTLE_MEDIUM
    ELSE IF max_usage > lim.throttle_threshold_1 THEN THROTTLE_LIGHT
    ELSE THROTTLE_NONE

\* _calculate_throttle_level(cpu, ram) under the limits lim.
CalculateThrottleLevel(lim, cpu, ram) ==
  LET max_usage == IF cpu >= ram THEN cpu ELSE ram IN
    IF max_usage >= lim.throttle_threshold_3 THEN THROTTLE_HEAVY
    ELSE IF max_usage >= lim.throttle_threshold_2 THEN THROTTLE_MEDIUM
    ELSE IF max_usage >= lim.throttle_threshold_1 THEN THROTTLE_LIGHT
    ELSE THROTTLE_NONE

\* resource_ok computed from the CPU limit alone.
ResourceOkCpuOnly(lim, cpu, ram) == cpu <= lim.max_cpu_percent

\* The local resource_ok of _monitor_loop.
ResourceOk(lim, cpu, ram) ==
  /\ cpu <= lim.max_cpu_percent
  /\ ram <= lim.max_ram_percent

\* A collection forced as soon as the interval has passed.
ShouldForceGcAtInterval(ram, time_since_gc) ==
  /\ ram > GcRamMark
  /\ time_since_gc >= GcMinInterval

\* _should_force_gc(ram), time_since_gc seconds after the last forced
\* collection.
ShouldForceGc(ram, time_since_gc) ==
  /\ ram > GcRamMark
  /\ time_since_gc > GcMinInterval

\* The writes of one iteration of _monitor_loop, in program order; each
\* takes the dictionary before the write and gives the dictionary after it.
WriteCpu(state, cpu) == [state EXCEPT !.cpu_percent = cpu]

WriteRam(state, ram) == [state EXCEPT !.ram_percent = ram]

WriteThrottle(state, lim, cpu, ram) ==
  [state EXCEPT !.throttle_level = CalculateThrottleLevel(lim, cpu, ram)]

WriteResourceOk(state, lim, cpu, ram) ==
  [state EXCEPT !.resource_ok = ResourceOk(lim, cpu, ram)]

\* last_gc_time = time.time() after a forced collection, the clock
\* reading now.
WriteGcTimeAt(state, ram, time_since_gc, now) ==
  IF ShouldForceGc(ram, time_since_gc)
    THEN [state EXCEPT !.last_gc_time = now]
    ELSE state

\* The same where no clock is kept: a time stamp later than the one of
\* construction, which is 0; 1 stands for it.
WriteGcTime(state, ram, time_since_gc) ==
  WriteGcTimeAt(state, ram, time_since_gc, 1)

\* One iteration of _monitor_loop from the sample to the sleep, the clock
\* reading now.
MonitorIterationAt(state, lim, cpu, ram, time_since_gc, now) ==
  WriteGcTimeAt(
    WriteResourceOk(
      WriteThrottle(WriteRam(WriteCpu(state, cpu), ram), lim, cpu, ram),
      lim, cpu, ram),
    ram, time_since_gc, now)

MonitorIteration(state, lim, cpu, ram, time_since_gc) ==
  MonitorIterationAt(state, lim, cpu, ram, time_since_gc, 1)

\* One iteration of _monitor_loop and the sleep after it, the samples
\* being drawn from a given set.
GovernorCycleOver(samples) ==
  /\ alive["RG"]
  /\ gpc = "sample"
  /\ \E cpu \in samples, ram \in samples, since \in GcElapsed :
       shared_state' = MonitorIteration(shared_state, limits, cpu, ram, since)
  /\ UNCHANGED <<ctlVars, procVars, sigVars, crashes, confVars>>

GovernorCycle == GovernorCycleOver(SteadyPercents)

\* RAM climbing from 30% to 68% in 60 s, then staying there.
Ramp(t) == IF t < 60 THEN 30 + (38 * t) \div 60 ELSE 68

\* The RAM samples taken when the clock reads t: the one on the ramp, the
\* mark of _should_force_gc and the first value above it.
GcSamples(t) == {Ramp(t), GcRamMark, GcRamMark + 1}

\* time.sleep(check_interval) lasts check_interval seconds or longer.
SleepTimes == {CheckInterval, CheckInterval + 1}

\* The clock stops once the window of three collections has passed.
MaxClock == 3 * GcMinInterval + CheckInterval

\* time.sleep(check_interval) and the iteration of _monitor_loop after it,
\* with the clock: time_since_gc is time.time() - last_gc_time.  The clock,
\* the sample and the times of the forced collections are kept.
TimedGovernorCycle ==
  /\ alive["RG"]
  /\ gpc = "sample"
  /\ hist.gc.now < MaxClock
  /\ \E slept \in SleepTimes :
       LET now == hist.gc.now + slept
           since == now - shared_state.last_gc_time
       IN \E ram \in GcSamples(now) :
            /\ shared_state' =
                 MonitorIterationAt(shared_state, limits, 0, ram, since, now)
            /\ hist' =
                 [hist EXCEPT !.gc =
                    [now |-> now,
                     ram |-> ram,
                     since |-> since,
                     ramp |-> @.ramp /\ ram = Ramp(now),
                     reclaims |->
                       IF ShouldForceGc(ram, since)
                         THEN Append(@.reclaims, now)
                         ELSE @.reclaims]]
  /\ UNCHANGED <<ctlVars, procVars, sigVars, crashes, settledVars, remote,
                 inflight>>

\* The same iteration, one write of the dictionary at a time.
GovSample ==
  /\ alive["RG"]
  /\ gpc = "sample"
  /\ \E cpu \in GovPercents, ram \in GovPercents :
       g_cpu' = cpu /\ g_ram' = ram
  /\ gpc' = "write_cpu"
  /\ UNCHANGED <<ctlVars, handleVars, proberVars, gauges, sigVars, crashes,
                 shared_state, confVars>>

GovWriteCpu ==
  /\ alive["RG"]
  /\ gpc = "write_cpu"
  /\ shared_state' = WriteCpu(shared_state, g_cpu)
  /\ gpc' = "write_ram"
  /\ UNCHANGED <<ctlVars, handleVars, proberVars, gauges, sigVars, crashes,
                 confVars, g_cpu, g_ram>>

GovWriteRam ==
  /\ alive["RG"]
  /\ gpc = "write_ram"
  /\ shared_state' = WriteRam(shared_state, g_ram)
  /\ gpc' = "write_throttle"
  /\ UNCHANGED <<ctlVars, handleVars, proberVars, gauges, sigVars, crashes,
                 confVars, g_cpu, g_ram>>

GovWriteThrottle ==
  /\ alive["RG"]
  /\ gpc = "write_throttle"
  /\ shared_state' = WriteThrottle(shared_state, limits, g_cpu, g_ram)
  /\ gpc' = "write_ok"
  /\ UNCHANGED <<ctlVars, handleVars, proberVars, gauges, sigVars, crashes,
                 confVars, g_cpu, g_ram>>

GovWriteOk ==
  /\ alive["RG"]
  /\ gpc = "write_ok"
  /\ shared_state' = WriteResourceOk(shared_state, limits, g_cpu, g_ram)
  /\ gpc' = "gc"
  /\ UNCHANGED <<ctlVars, handleVars, proberVars, gauges, sigVars, crashes,
                 confVars, g_cpu, g_ram>>

GovGc ==
  /\ alive["RG"]
  /\ gpc = "gc"
  /\ \E since \in GcElapsed :
       shared_state' = WriteGcTime(shared_state, g_ram, since)
  /\ gpc' = "sleep"
  /\ UNCHANGED <<ctlVars, handleVars, proberVars, gauges, sigVars, crashes,
                 confVars, g_cpu, g_ram>>

\* time.sleep(check_interval); the next iteration takes new samples.
GovSleep ==
  /\ alive["RG"]
  /\ gpc = "sleep"
  /\ gpc' = "sample"
  /\ g_cpu' = 0
  /\ g_ram' = 0
  /\ UNCHANGED <<ctlVars, handleVars, proberVars, gauges, sigVars, crashes,
                 shared_state, confVars>>

\* "except Exception" of _monitor_loop: an error raised anywhere in the
\* loop is logged, resource_ok is set to False and the process ends.
GovError ==
  /\ alive["RG"]
  /\ gpc # "dead"
  /\ crashes < MaxCrashes
  /\ crashes' = crashes + 1
  /\ shared_state' = [shared_state EXCEPT !.resource_ok = FALSE]
  /\ alive' = [alive EXCEPT !["RG"] = FALSE]
  /\ Gone("RG")
  /\ UNCHANGED <<ctlVars, startLog, stopLog, sigVars, confVars>>

GovSteps ==
  \/ GovSample
  \/ GovWriteCpu
  \/ GovWriteRam
  \/ GovWriteThrottle
  \/ GovWriteOk
  \/ GovGc
  \/ GovSleep

(***************************************************************************)
(* MetricsServer (Process #4)                                              *)
(***************************************************************************)
Flag(b) == IF b THEN 1 ELSE 0

\* An _update_metrics that sets no gauge.
UpdateMetricsNoGauge(metrics, state) == metrics

\* An _update_metrics that sets a connectivity gauge only when the key is
\* true: a gauge that was 1 stays 1 after the probe has failed.
UpdateMetricsKeepOnFailure(metrics, state) ==
  [metrics EXCEPT
     !.cpu_usage         = state.cpu_percent,
     !.ram_usage         = state.ram_percent,
     !.throttle_level    = state.throttle_level,
     !.dns_status        = IF state.dns_ok THEN 1 ELSE @,
     !.tls_status        = IF state.tls_ok THEN 1 ELSE @,
     !.opensearch_status = IF state.opensearch_ok THEN 1 ELSE @,
     !.aws_ready         = IF state.aws_ready THEN 1 ELSE @,
     !.vector_status     = IF state.vector_running THEN 1 ELSE 0,
     !.suricata_status   = IF state.suricata_running THEN 1 ELSE 0,
     !.redis_status      = IF state.redis_running THEN 1 ELSE 0,
     !.pipeline_ok       = IF state.pipeline_ok THEN 1 ELSE 0]

\* _update_metrics: the metrics after it.  The eleven gauges are set from
\* the dictionary; the counters are not touched.
UpdateMetrics(metrics, state) ==
  [metrics EXCEPT
     !.cpu_usage         = state.cpu_percent,
     !.ram_usage         = state.ram_percent,
     !.throttle_level    = state.throttle_level,
     !.dns_status        = Flag(state.dns_ok),
     !.tls_status        = Flag(state.tls_ok),
     !.opensearch_status = Flag(state.opensearch_ok),
     !.aws_ready         = Flag(state.aws_ready),
     !.vector_status     = Flag(state.vector_running),
     !.suricata_status   = Flag(state.suricata_running),
     !.redis_status      = Flag(state.redis_running),
     !.pipeline_ok       = Flag(state.pipeline_ok)]

\* An _update_metrics that takes one event off each count of the
\* dictionary at every refresh.
SharedAfterUpdateDraining(state) ==
  [state EXCEPT !.events_processed = @ - 1, !.events_failed = @ - 1]

\* An _update_metrics that marks the pipeline as degraded once it has
\* shown it.
SharedAfterUpdateDegrading(state) == [state EXCEPT !.pipeline_ok = FALSE]

\* _update_metrics: the dictionary after it.  events_processed and
\* events_failed are read into locals and nothing is written.
SharedAfterUpdate(state) == state

\* One turn of _metrics_loop: _update_metrics and the sleep after it.
ExporterRefresh ==
  /\ alive["TE"]
  /\ gauges' = UpdateMetrics(gauges, shared_state)
  /\ shared_state' = SharedAfterUpdate(shared_state)
  /\ UNCHANGED <<ctlVars, handleVars, proberVars, govVars, sigVars, crashes,
                 confVars>>

(***************************************************************************)
(* The control API: the start_service and stop_service routes of           *)
(* APIServer._setup_routes, as run by the Flask process.                   *)
(***************************************************************************)
\* The methods DockerManager and SuricataManager define.
HandleMethods ==
  [ docker_manager |->
      {"verify_compose_file", "start_stack", "stop_stack", "restart_service",
       "get_service_status", "is_service_running",
       "wait_for_service_healthy", "wait_for_stack_healthy",
       "get_stack_status", "get_container_logs", "get_container_stats",
       "cleanup"},
    suricata_manager |->
      {"generate_config", "validate_config", "get_stats", "reload_rules"} ]

NoOperation == [handle |-> None, method |-> None]

\* start_service reaching the docker branch for every name but "suricata".
StartOperationAnyName(service_name) ==
  IF Falsy(service_name)
    THEN NoOperation
    ELSE IF service_name = "suricata"
      THEN [handle |-> "suricata_manager", method |-> "start"]
      ELSE [handle |-> "docker_manager", method |-> "restart_service"]

\* The call start_service makes for a service name.
StartOperation(service_name) ==
  IF Falsy(service_name)
    THEN NoOperation
    ELSE IF service_name = "suricata"
      THEN [handle |-> "suricata_manager", method |-> "start"]
      ELSE IF service_name \in Services
        THEN [handle |-> "docker_manager", method |-> "restart_service"]
        ELSE NoOperation

\* The call stop_service makes for a service name.
StopOperation(service_name) ==
  IF Falsy(service_name)
    THEN NoOperation
    ELSE IF service_name = "suricata"
      THEN [handle |-> "suricata_manager", method |-> "stop"]
      ELSE IF service_name \in Services
        THEN [handle |-> "docker_manager", method |-> "stop_service"]
        ELSE NoOperation

\* The attribute exists: otherwise the call raises AttributeError.
HasMethod(op) == op.method \in HandleMethods[op.handle]

\* str() of a Python bool inside an f-string.
PyStr(b) == IF b THEN "True" ELSE "False"

\* "return jsonify({...}), code"; without a code Flask answers 200.
Jsonify(code, status, message) ==
  [code |-> code, json |-> TRUE, status |-> status, message |-> message]

\* What Flask (debug=False) answers when the view function raises: 500 with
\* its own HTML page.
InternalServerError ==
  [code |-> 500, json |-> FALSE, status |-> None, message |-> None]

\* The f-string each branch stores in message.
OperationMessage(op, service_name, success) ==
  CASE op.method = "start" ->
         "Attempting to start Suricata. Success: " \o PyStr(success)
    [] op.method = "stop" ->
         "Attempting to stop Suricata. Success: " \o PyStr(success)
    [] op.method = "restart_service" ->
         "Attempting to start/restart Docker service " \o service_name \o
         ". Success: " \o PyStr(success)
    [] op.method = "stop_service" ->
         "Attempting to stop Docker service " \o service_name \o
         ". Success: " \o PyStr(success)

\* The answer of either route: op is the call the route makes for the name
\* and success what that call returned.
Answer(service_name, op, success) ==
  IF Falsy(service_name)
    THEN Jsonify(400, "error", "Service name not provided")
    ELSE IF op = NoOperation
      THEN Jsonify(400, "error", "Unknown service: " \o service_name)
      ELSE IF ~HasMethod(op)
        THEN InternalServerError
        ELSE Jsonify(200, IF success THEN "success" ELSE "error",
                     OperationMessage(op, service_name, success))

\* DockerManager.restart_service: "docker-compose restart <service>".
\* success: the command exited with 0, after which the container runs;
\* otherwise the exception is caught, False is returned, and the container
\* is as it was or down (left).
RestartService(running, service, success, left) ==
  [running EXCEPT ![service] = IF success THEN 1 ELSE left]

\* The collaborators after the call: restart_service is the only method a
\* route calls that exists.
AfterOperation(running, service_name, op, success, left) ==
  IF op # NoOperation /\ HasMethod(op) /\ op.method = "restart_service"
    THEN RestartService(running, service_name, success, left)
    ELSE running

RunningCount(running, service_name) ==
  IF service_name \in Collaborators THEN running[service_name] ELSE 0

\* One answered request: the route, the name, the call made, whether it
\* returned and what, the answer, and the instances of the named
\* collaborator before and after.
Answered(route, service_name, op, success, running, after) ==
  [ route     |-> route,
    service   |-> service_name,
    operation |-> op,
    succeeded |-> op # NoOperation /\ HasMethod(op) /\ success,
    response  |-> Answer(service_name, op, success),
    was       |-> RunningCount(running, service_name),
    now       |-> RunningCount(after, service_name) ]

\* The last two requests answered.
Remember(log, entry) ==
  IF log = <<>> THEN <<entry>> ELSE <<log[Len(log)], entry>>

\* POST /api/control/start
ApiStart ==
  /\ alive["CA"]
  /\ \E service_name \in ServiceNames, success \in BOOLEAN :
       \E left \in {RunningCount(instances, service_name), 0} :
         LET op    == StartOperation(service_name)
             after == AfterOperation(instances, service_name, op, success,
                                     left)
         IN /\ instances' = after
            /\ api_log' = Remember(api_log,
                            Answered("start", service_name, op, success,
                                     instances, after))
  /\ UNCHANGED <<ctlVars, procVars, sigVars, crashes, shared_state,
                 cfgEndpoint, limits, tl_cpu, tl_ram, tl_level, config, env,
                 cfg_pc, fileVars, sideVars>>

\* POST /api/control/stop
ApiStop ==
  /\ alive["CA"]
  /\ \E service_name \in ServiceNames, success \in BOOLEAN :
       \E left \in {RunningCount(instances, service_name), 0} :
         LET op    == StopOperation(service_name)
             after == AfterOperation(instances, service_name, op, success,
                                     left)
         IN /\ instances' = after
            /\ api_log' = Remember(api_log,
                            Answered("stop", service_name, op, success,
                                     instances, after))
  /\ UNCHANGED <<ctlVars, procVars, sigVars, crashes, shared_state,
                 cfgEndpoint, limits, tl_cpu, tl_ram, tl_level, config, env,
                 cfg_pc, fileVars, sideVars>>

\* A request answered by a route that names no collaborator.
AnsweredPlain(route, response) ==
  [ route     |-> route,
    service   |-> None,
    operation |-> NoOperation,
    succeeded |-> FALSE,
    response  |-> response,
    was       |-> 0,
    now       |-> 0 ]

\* GET /api/status: jsonify(self.shared_state).  The dictionary is a
\* DictProxy of the Manager, which the JSON encoder of Flask does not
\* know: the view raises TypeError.
ApiStatus ==
  /\ alive["CA"]
  /\ api_log' = Remember(api_log, AnsweredPlain("status", InternalServerError))
  /\ UNCHANGED <<ctlVars, procVars, sigVars, crashes, shared_state,
                 cfgEndpoint, limits, tl_cpu, tl_ram, tl_level, config, env,
                 cfg_pc, instances, fileVars, sideVars>>

\* HTTP 200 whose body is not a status and a message.
JsonifyObject ==
  [code |-> 200, json |-> TRUE, status |-> None, message |-> None]

\* GET /api/config: jsonify(self.config.config)
ApiConfig ==
  /\ alive["CA"]
  /\ api_log' = Remember(api_log, AnsweredPlain("config", JsonifyObject))
  /\ UNCHANGED <<ctlVars, procVars, sigVars, crashes, shared_state,
                 cfgEndpoint, limits, tl_cpu, tl_ram, tl_level, config, env,
                 cfg_pc, instances, fileVars, sideVars>>

\* What Flask answers, with a page of its own, when request.json is read
\* from a request whose body is not JSON: 400 or 415, by its version.
NotJsonCodes == {400, 415}

\* POST /api/config/update: reads request.json, logs it and answers; the
\* configuration is not touched.
ApiConfigUpdate ==
  /\ alive["CA"]
  /\ \E is_json \in BOOLEAN, code \in NotJsonCodes :
       api_log' =
         Remember(api_log,
           AnsweredPlain("config_update",
             IF is_json
               THEN Jsonify(200, "success", "Config update initiated")
               ELSE [InternalServerError EXCEPT !.code = code]))
  /\ UNCHANGED <<ctlVars, procVars, sigVars, crashes, shared_state,
                 cfgEndpoint, limits, tl_cpu, tl_ram, tl_level, config, env,
                 cfg_pc, instances, fileVars, sideVars>>

\* POST /api/control/start for a service of the stack, in request thread
\* t, up to subprocess.run of "docker-compose restart <service>": neither
\* the route, nor restart_service, nor _run_compose_command takes a lock
\* or looks for a command already running.
RestartEnter(t) ==
  /\ alive["CA"]
  /\ inflight[t] = None
  /\ \E service_name \in Services :
       inflight' = [inflight EXCEPT ![t] = service_name]
  /\ UNCHANGED <<ctlVars, procVars, sigVars, crashes, shared_state,
                 settledVars, hist, remote>>

\* subprocess.run returns in thread t, and the route answers.
RestartReturn(t) ==
  /\ alive["CA"]
  /\ inflight[t] # None
  /\ \E success \in BOOLEAN :
       \E left \in {RunningCount(instances, inflight[t]), 0} :
         LET op    == StartOperation(inflight[t])
             after == AfterOperation(instances, inflight[t], op, success,
                                     left)
         IN /\ instances' = after
            /\ api_log' = Remember(api_log,
                            Answered("start", inflight[t], op, success,
                                     instances, after))
  /\ inflight' = [inflight EXCEPT ![t] = None]
  /\ UNCHANGED <<ctlVars, procVars, sigVars, crashes, shared_state,
                 cfgEndpoint, limits, tl_cpu, tl_ram, tl_level, config, env,
                 cfg_pc, fileVars, hist, remote>>

(***************************************************************************)
(* ConfigManager.__init__ and IDS2Agent.__init__                           *)
(***************************************************************************)
\* validate_env_placeholder(value, placeholder, env_var, label) raises.
ValidateRaises(value, placeholder, env_var, e) ==
  /\ value = placeholder
  /\ Falsy(e[env_var])

\* resolve_env_placeholder(value, placeholder, env_var, label, required)
\* raises.
ResolveRaises(value, placeholder, env_var, e, required) ==
  /\ value = placeholder
  /\ required
  /\ Falsy(e[env_var])

\* resolve_env_placeholder(...) when it returns.
Resolve(value, placeholder, env_var, e) ==
  IF value = placeholder THEN e[env_var] ELSE value

ResolveKey(c, k, e) ==
  [c EXCEPT ![k] = Resolve(c[k], Placeholder(k), EnvVarOf[k], e)]

\* _validate_config raises on one of its eight placeholder tests.
ValidateConfigRaises(c, e) ==
  \E i \in 1..Len(ValidatedKeys) :
    LET k == ValidatedKeys[i] IN
      ValidateRaises(c[k], Placeholder(k), EnvVarOf[k], e)

\* get_aws_config raises (required is left at its default, True).
GetAwsConfigRaises(c, e) ==
  ResolveRaises(c["aws.iam_user_arn"], Placeholder("aws.iam_user_arn"),
                EnvVarOf["aws.iam_user_arn"], e, TRUE)

\* The getters store what they resolve in the section they were given, which
\* is the section of ConfigManager.config itself.
GetAwsConfig(c, e) == ResolveKey(c, "aws.iam_user_arn", e)

GetMonitoringConfig(c, e) ==
  ResolveKey(ResolveKey(c, "monitoring.grafana_admin_user", e),
             "monitoring.grafana_admin_password", e)

GetGitConfig(c, e) ==
  ResolveKey(ResolveKey(ResolveKey(ResolveKey(c,
    "git.author_name", e), "git.author_email", e),
    "git.committer_name", e), "git.committer_email", e)

\* IDS2Agent.__init__: ConfigManager(config_path).  readable: the file
\* exists, parses, has the required sections and limits within 0..100.  A
\* constructor that raises is logged and the process exits with status 1.
LoadConfig ==
  /\ cfg_pc = "new"
  /\ \E readable \in BOOLEAN :
       IF ~readable
         THEN cfg_pc' = "exited" /\ exitCode' = 1 /\ failed' = "load"
         ELSE IF ValidateConfigRaises(config, env)
           THEN cfg_pc' = "exited" /\ exitCode' = 1 /\ failed' = "placeholder"
           ELSE cfg_pc' = "loaded" /\ UNCHANGED <<exitCode, failed>>
  /\ UNCHANGED <<pc, cur, rc, phaseLog, waited, procVars, sigVars, crashes,
                 shared_state, cfgEndpoint, limits, tl_cpu, tl_ram, tl_level,
                 config, env, apiVars, fileVars, sideVars>>

\* IDS2Agent.__init__ after the load: the constructors of the managers, of
\* which ConnectivityChecker, AWSManager and VectorManager call
\* get_aws_config, MetricsServer get_monitoring_config and GitWorkflow
\* get_git_config.  A ValueError of get_aws_config is caught nowhere: the
\* interpreter prints the traceback and exits with status 1.
InitManagers ==
  /\ cfg_pc = "loaded"
  /\ IF GetAwsConfigRaises(config, env)
       THEN /\ cfg_pc' = "crashed"
            /\ exitCode' = 1
            /\ failed' = "init"
            /\ UNCHANGED config
       ELSE /\ cfg_pc' = "ready"
            /\ config' = GetGitConfig(GetAwsConfig(GetAwsConfig(
                           GetMonitoringConfig(GetAwsConfig(config, env), env),
                           env), env), env)
            /\ UNCHANGED <<exitCode, failed>>
  /\ UNCHANGED <<pc, cur, rc, phaseLog, waited, procVars, sigVars, crashes,
                 shared_state, cfgEndpoint, limits, tl_cpu, tl_ram, tl_level,
                 env, apiVars, fileVars, sideVars>>

(***************************************************************************)
(* ConfigManager.set_aws_opensearch_endpoint and ConfigManager.reload,     *)
(* called on the ConfigManager of the process at any time after its        *)
(* construction.                                                           *)
(***************************************************************************)
\* set_aws_opensearch_endpoint(endpoint): the value is stored in
\* ConfigManager.config, then _save_config dumps the whole of it.
\* writable: open(config_path, 'w') succeeds; otherwise _save_config logs
\* and raises again, the file being as it was.
SetEndpoint ==
  /\ cfg_pc \in {"loaded", "ready"}
  /\ \E endpoint \in EndpointValues, writable \in BOOLEAN :
       /\ cfgEndpoint' = endpoint
       /\ file' = IF writable THEN SaveConfig(config, endpoint) ELSE file
       /\ cfg_log' = Remember(cfg_log, [op |-> "set", endpoint |-> endpoint,
                                        returned |-> writable])
  /\ UNCHANGED <<ctlVars, procVars, sigVars, crashes, shared_state, limits,
                 tl_cpu, tl_ram, tl_level, config, env, cfg_pc, apiVars,
                 sideVars>>

\* reload(): _load_config, then _validate_config.  readable: the file
\* exists and parses; otherwise _load_config raises before it assigns.  A
\* ValueError of _validate_config leaves the loaded values in place.
Reload ==
  /\ cfg_pc \in {"loaded", "ready"}
  /\ \E readable \in BOOLEAN :
       IF readable
         THEN /\ config' = LoadedConfig(file)
              /\ cfgEndpoint' = LoadedEndpoint(file)
              /\ cfg_log' =
                   Remember(cfg_log,
                     [op |-> "reload", endpoint |-> None,
                      returned |-> ~ValidateConfigRaises(LoadedConfig(file),
                                                         env)])
         ELSE /\ cfg_log' =
                   Remember(cfg_log, [op |-> "reload", endpoint |-> None,
                                      returned |-> FALSE])
              /\ UNCHANGED <<config, cfgEndpoint>>
  /\ UNCHANGED <<ctlVars, procVars, sigVars, crashes, shared_state, limits,
                 tl_cpu, tl_ram, tl_level, env, cfg_pc, apiVars, file,
                 sideVars>>

(***************************************************************************)
(* One call of _calculate_throttle_level.                                  *)
(***************************************************************************)
ThrottleCall ==
  /\ tl_level = NoLevel
  /\ tl_level' = CalculateThrottleLevel(limits, tl_cpu, tl_ram)
  /\ UNCHANGED <<ctlVars, procVars, sigVars, crashes, shared_state,
                 cfgEndpoint, limits, tl_cpu, tl_ram, config, env, cfg_pc,
                 apiVars, fileVars, sideVars>>

(***************************************************************************)
(* Spec: run() with worker deaths, signals and the connectivity checker's  *)
(* cycles.                                                                 *)
(***************************************************************************)
Next ==
  \/ Supervisor
  \/ ProberCycle
  \/ \E w \in Workers : Crash(w)
  \/ Signal

Spec == Init /\ [][Next]_vars

(***************************************************************************)
(* SpecProber: run() with the connectivity checker's cycle taken one write *)
(* at a time, the checker dying at any point of it.                        *)
(***************************************************************************)
NextProber ==
  \/ Supervisor
  \/ ProberSteps
  \/ Crash("CP")

SpecProber == Init /\ [][NextProber]_vars

(***************************************************************************)
(* Phase G reached with everything in order: the four workers alive, the   *)
(* seven phases entered, the connectivity checks passed, no cycle of the   *)
(* resource controller or of the metrics server completed yet.             *)
(***************************************************************************)
SteadySharedState ==
  [InitSharedState(Endpoint) EXCEPT
     !.dns_ok = TRUE, !.tls_ok = TRUE, !.opensearch_ok = TRUE,
     !.aws_ready = TRUE, !.last_connectivity_check = 1,
     !.vector_running = TRUE, !.redis_running = TRUE,
     !.api_server_running = TRUE, !.pipeline_ok = TRUE]

\* run() at position with the four workers alive.
InitRunning(position, entered) ==
  /\ pc = position
  /\ cur = Len(StartOrder)
  /\ rc = NoExit
  /\ exitCode = NoExit
  /\ alive = [w \in Workers |-> TRUE]
  /\ startLog = StartOrder
  /\ stopLog = <<>>
  /\ phaseLog = entered
  /\ failed = None
  /\ shutdown = FALSE
  /\ sigInG = FALSE
  /\ crashes = 0
  /\ waited = 0
  /\ cfgEndpoint = Endpoint
  /\ cpc = "check"
  /\ dns_result = FALSE
  /\ tls_result = FALSE
  /\ bulk_answer = NoAnswer
  /\ bulk_attempt = 0
  /\ gpc = "sample"
  /\ g_cpu = 0
  /\ g_ram = 0
  /\ gauges = ZeroGauges
  /\ api_log = <<>>
  /\ cfg_log = <<>>
  /\ hist = NoHist
  /\ InitNoThrottleCall
  /\ InitConfigured
  /\ AnyRemote
  /\ NoneInFlight

InitPhaseG ==
  /\ InitRunning("g_head", Phases)
  /\ shared_state = SteadySharedState

InitSteady == InitPhaseG /\ instances = StackUp

MonitorLoop ==
  \/ MonitorHead
  \/ MonitorCheck
  \/ MonitorSleep
  \/ StopChild

(***************************************************************************)
(* SpecGov: Phase G with the resource controller's loop taken one write at *)
(* a time, the controller dying or failing at any point of it.             *)
(***************************************************************************)
NextGov ==
  \/ MonitorLoop
  \/ GovSteps
  \/ GovError
  \/ Crash("RG")
  \/ Signal

SpecGov == InitSteady /\ [][NextGov]_vars

(***************************************************************************)
(* SpecSteady: Phase G with the loops of the three workers that use the    *)
(* dictionary, each cycle in one step, any worker dying at any time and no *)
(* signal arriving.                                                       *)
(***************************************************************************)
NextSteady ==
  \/ MonitorLoop
  \/ GovernorCycle
  \/ ProberCycle
  \/ ExporterRefresh
  \/ \E w \in Workers : Crash(w)

SpecSteady == InitSteady /\ [][NextSteady]_vars

(***************************************************************************)
(* SpecGc: Phase G with the resource controller's loop and its clock.      *)
(***************************************************************************)
NextGc == TimedGovernorCycle

SpecGc == InitSteady /\ [][NextGc]_vars

(***************************************************************************)
(* SpecWriters: run() with the loops of the resource controller and the    *)
(* connectivity checker, the controller failing.                           *)
(***************************************************************************)
NextWriters ==
  \/ Supervisor
  \/ ProberCycle
  \/ GovernorCycle
  \/ GovError

SpecWriters == Init /\ [][NextWriters]_vars

(***************************************************************************)
(* SpecHandles: Phase G with two request threads of the API server         *)
(* restarting services of the stack.                                       *)
(***************************************************************************)
NextHandles ==
  \/ \E t \in RequestThreads : RestartEnter(t)
  \/ \E t \in RequestThreads : RestartReturn(t)

SpecHandles == InitSteady /\ [][NextHandles]_vars

(***************************************************************************)
(* SpecRender: run() from Phase B on, with what the managers returned in   *)
(* Phase B.                                                                *)
(***************************************************************************)
InitRender ==
  /\ InitRunning("phaseB", SubSeq(Phases, 1, 1))
  /\ shared_state = InitSharedState(Endpoint)
  /\ instances = NoInstance

NextRender ==
  \/ PhaseBWatched
  \/ PhaseC
  \/ PhaseD
  \/ PhaseDPoll
  \/ ProberCycle
  \/ StopChild

SpecRender == InitRender /\ [][NextRender]_vars

(***************************************************************************)
(* SpecStart: Phase G with its monitor loop, any worker dying at any time  *)
(* and start() called on any of them at any time.                          *)
(***************************************************************************)
NextStart ==
  \/ MonitorLoop
  \/ \E w \in Workers : StartCall(w)
  \/ \E w \in Workers : Crash(w)

SpecStart == InitSteady /\ [][NextStart]_vars

(***************************************************************************)
(* SpecTrack: Phase G with the loops of the connectivity checker and the   *)
(* metrics server, no worker dying and no signal arriving.                 *)
(*                                                                         *)
(* Fairness: the supervisor and the two workers are processes of their     *)
(* own, each in a loop whose sleeps are bounded.                           *)
(***************************************************************************)
MonitorTurn ==
  \/ MonitorHead
  \/ MonitorCheck
  \/ MonitorSleep

NextTrack ==
  \/ MonitorTurn
  \/ ProberCycle
  \/ ExporterRefresh

SpecTrack ==
  /\ InitSteady
  /\ [][NextTrack]_vars
  /\ WF_vars(MonitorTurn)
  /\ WF_vars(ProberCycle)
  /\ WF_vars(ExporterRefresh)

(***************************************************************************)
(* SpecWait: run() with an endpoint in the configuration and no worker     *)
(* dying, against a domain of either kind.                                 *)
(***************************************************************************)
InitWait ==
  /\ InitAgent
  /\ InitNoThrottleCall
  /\ InitConfigured
  /\ cfgEndpoint = Endpoint
  /\ remote \in Remotes
  /\ NoneInFlight

NextWait ==
  \/ Supervisor
  \/ remote = "any" /\ ProberCycle
  \/ remote = "forbids" /\ ProberCycleForbidden

SpecWait == InitWait /\ [][NextWait]_vars

(***************************************************************************)
(* SpecVerify: run() from the return of Phase D, the collaborators in any  *)
(* condition, the connectivity checker going on with its cycles.           *)
(***************************************************************************)
InitVerify ==
  /\ InitRunning("phaseE", SubSeq(Phases, 1, 4))
  /\ shared_state = [SteadySharedState EXCEPT !.pipeline_ok = FALSE]
  /\ instances \in [Collaborators -> 0..1]

NextVerify ==
  \/ PhaseEWatched
  \/ PhaseF
  \/ PhaseG
  \/ StopChild
  \/ ProberCycle

SpecVerify == InitVerify /\ [][NextVerify]_vars

(***************************************************************************)
(* SpecCommit: run() from the return of Phase E to its own return, git     *)
(* doing anything it can do in Phase F, a signal arriving at any time.     *)
(***************************************************************************)
InitCommit ==
  /\ InitRunning("phaseF", SubSeq(Phases, 1, 5))
  /\ shared_state = SteadySharedState
  /\ instances = StackUp

NextCommit ==
  \/ PhaseFWatched
  \/ PhaseG
  \/ MonitorLoop
  \/ Signal

SpecCommit == InitCommit /\ [][NextCommit]_vars

(***************************************************************************)
(* SpecStop: the four workers alive, stop() called on any of them at any   *)
(* time, any of them dying on its own.                                     *)
(***************************************************************************)
NextStop ==
  \/ \E w \in Workers : StopCall(w)
  \/ \E w \in Workers : Crash(w)

SpecStop == InitSteady /\ [][NextStop]_vars

(***************************************************************************)
(* SpecRestart: Phase G with the times of the workers' deaths on record,   *)
(* any worker dying at any time and no signal arriving.                    *)
(***************************************************************************)
NextRestart ==
  \/ MonitorHead
  \/ MonitorCheck
  \/ TimedSleep
  \/ StopChild
  \/ \E w \in Workers : TimedCrash(w)

SpecRestart == InitSteady /\ [][NextRestart]_vars

(***************************************************************************)
(* SpecThrottle: _calculate_throttle_level applied to every sample under   *)
(* every choice of thresholds T1 < T2 < T3.                                *)
(***************************************************************************)
InitThrottle ==
  /\ InitAgent
  /\ InitConfigured
  /\ AnyRemote
  /\ NoneInFlight
  /\ limits \in ThrottleLimits
  /\ tl_cpu \in Percents
  /\ tl_ram \in Percents
  /\ tl_level = NoLevel

NextThrottle == ThrottleCall

SpecThrottle == InitThrottle /\ [][NextThrottle]_vars

(***************************************************************************)
(* SpecCfg: the process from its start to the start of the workers, for    *)
(* every configuration file and environment within the bounds.             *)
(***************************************************************************)
InitCfg ==
  /\ InitAgent
  /\ InitNoThrottleCall
  /\ AnyRemote
  /\ NoneInFlight
  /\ cfg_pc = "new"
  /\ \E S \in {T \in SUBSET ConfigKeys : Cardinality(T) <= MaxPlaceholders} :
       /\ config \in ConfigsOver(S)
       /\ env \in EnvsOver(S)
  /\ InitFile

NextCfg ==
  \/ LoadConfig
  \/ InitManagers
  \/ VerifyGitBranch
  \/ StartChild
  \/ CheckChild

SpecCfg == InitCfg /\ [][NextCfg]_vars

(***************************************************************************)
(* SpecApi: Phase G with the control API answering start and stop          *)
(* requests, for every set of collaborators running at the start.          *)
(***************************************************************************)
InitApi == InitPhaseG /\ instances \in [Collaborators -> 0..1]

NextApi ==
  \/ MonitorHead
  \/ MonitorCheck
  \/ MonitorSleep
  \/ ApiStart
  \/ ApiStop

SpecApi == InitApi /\ [][NextApi]_vars

(***************************************************************************)
(* SpecMut: the configuration from the start of the process on, with the   *)
(* endpoint mutator and reload called at any time once the ConfigManager   *)
(* exists, for every file and environment within MaxSecrets.               *)
(***************************************************************************)
NextMut ==
  \/ LoadConfig
  \/ InitManagers
  \/ SetEndpoint
  \/ Reload

InitMut ==
  /\ InitAgent
  /\ InitNoThrottleCall
  /\ AnyRemote
  /\ NoneInFlight
  /\ cfg_pc = "new"
  /\ \E S \in {T \in SUBSET ConfigKeys : Cardinality(T) <= MaxSecrets} :
       /\ config \in ConfigsOver(S)
       /\ env \in EnvsOver(S)
  /\ InitFile

SpecMut == InitMut /\ [][NextMut]_vars

(***************************************************************************)
(* SpecGreen: a cold start in which nothing fails.  The credentials are    *)
(* valid, the domain is ready and its endpoint is in the configuration,    *)
(* the files render and validate, the stack comes up with every service    *)
(* running, the workers start and stay alive, no signal arrives, every     *)
(* DNS, TLS and bulk check succeeds, and every sample is 20% CPU and 30%   *)
(* RAM under the default limits.                                           *)
(*                                                                         *)
(* Time: the connectivity checker is launched before Phase A and a cycle   *)
(* of successful checks is bounded by the timeouts of its requests (10 s   *)
(* for the TLS handshake, 30 s for the bulk request), so the 120 s of      *)
(* Phase D do not run out before a cycle has ended: the last sleep of the  *)
(* wait is not taken while aws_ready is still false.                       *)
(*                                                                         *)
(* Fairness: the supervisor and the three workers are processes of their   *)
(* own, each in a loop whose sleeps are bounded.                           *)
(***************************************************************************)
GreenSample == [cpu |-> 20, ram |-> 30]

InitGreen == Init /\ cfgEndpoint = Endpoint

GreenSupervisor ==
  /\ Supervisor
  /\ failed' = None
  /\ waited' < PhaseDMaxWait
  /\ pc = "phaseC" =>
       (shared_state'.vector_running /\ shared_state'.redis_running)

GreenProberCycle ==
  /\ ProberCycle
  /\ shared_state'.dns_ok
  /\ shared_state'.tls_ok
  /\ shared_state'.opensearch_ok

GreenGovernorCycle ==
  /\ GovernorCycleOver({GreenSample.cpu, GreenSample.ram})
  /\ shared_state'.cpu_percent = GreenSample.cpu
  /\ shared_state'.ram_percent = GreenSample.ram

NextGreen ==
  \/ GreenSupervisor
  \/ GreenProberCycle
  \/ GreenGovernorCycle
  \/ ExporterRefresh

SpecGreen ==
  /\ InitGreen
  /\ [][NextGreen]_vars
  /\ WF_vars(GreenSupervisor)
  /\ WF_vars(GreenProberCycle)
  /\ WF_vars(GreenGovernorCycle)
  /\ WF_vars(ExporterRefresh)

(***************************************************************************)
(* SpecRead: Phase G with the five routes of the control API answering     *)
(* and the metrics server refreshing, while the resource controller        *)
(* writes its samples to the dictionary.                                   *)
(***************************************************************************)
NextRead ==
  \/ GreenGovernorCycle
  \/ ExporterRefresh
  \/ ApiStatus
  \/ ApiStart
  \/ ApiStop
  \/ ApiConfig
  \/ ApiConfigUpdate

SpecRead == InitSteady /\ [][NextRead]_vars

(***************************************************************************)
(* Properties of run(), under Spec.                                        *)
(***************************************************************************)
Range(seq) == {seq[i] : i \in 1..Len(seq)}

IsPrefix(a, b) == Len(a) <= Len(b) /\ a = SubSeq(b, 1, Len(a))

\* seq lists elements of order, each at most once, in the order of order.
IsSubsequence(seq, order) ==
  /\ Range(seq) \subseteq Range(order)
  /\ \A i, j \in 1..Len(seq) :
       i < j =>
         \E k, l \in 1..Len(order) :
           k < l /\ order[k] = seq[i] /\ order[l] = seq[j]

AllStopped == \A w \in Workers : ~alive[w]

\* The supervisor took a step of run() (worker deaths, signals and worker
\* cycles leave pc, cur and exitCode alone).
RunStep == <<pc, cur, exitCode>>' # <<pc, cur, exitCode>>

\* C1: within one run() the phases are entered in the order A, B, C, D, E,
\* F, G only: the phases entered so far are always an initial part of that
\* list, so each is entered at most once, after all earlier ones, and none
\* is entered again.
C1_PhaseOrder ==
  IsPrefix(phaseLog, <<"A", "B", "C", "D", "E", "F", "G">>)

C1_Witness == pc = "done" /\ Len(phaseLog) = 7 /\ exitCode = 0

\* C2: once one of the phases A..E has failed, no later phase is entered,
\* run() only stops workers and returns, and when it has returned the exit
\* code is 1 and no worker is alive.
C2_PhaseFailureStopsAll ==
  failed \in {"A", "B", "C", "D", "E"} =>
    /\ phaseLog # <<>> /\ phaseLog[Len(phaseLog)] = failed
    /\ pc \in {"stop", "done"}
    /\ pc = "done" => exitCode = 1 /\ AllStopped

C2_Witness ==
  /\ failed = "A"
  /\ pc = "done"
  /\ exitCode = 1
  /\ stopLog = <<"CA", "TE", "CP", "RG">>

\* The workers launched first are RG, CP, TE, CA in that order, and all four
\* were launched when Phase A is entered.
StartedInOrder ==
  /\ IsPrefix(SubSeq(startLog, 1,
                      IF Len(startLog) < 4 THEN Len(startLog) ELSE 4),
              <<"RG", "CP", "TE", "CA">>)
  /\ phaseLog # <<>> => Len(startLog) >= 4

\* The workers that are stopped are stopped in the order CA, TE, CP, RG.
StoppedInReverseOrder == IsSubsequence(stopLog, <<"CA", "TE", "CP", "RG">>)

PhaseGExited == "G" \in Range(phaseLog) /\ pc \in {"stop", "done"}

\* C3 as stated: start order RG, CP, TE, CA before Phase A, stop in reverse
\* order, and no worker is stopped unless Phase G has exited.
C3_AsStated ==
  /\ StartedInOrder
  /\ StoppedInReverseOrder
  /\ stopLog # <<>> => PhaseGExited

\* C3, amended: the workers are started in the order RG, CP, TE, CA, all of
\* them before Phase A begins; they are stopped in the order CA, TE, CP, RG,
\* and only at the end of run(): after Phase G has exited, or after one of
\* the phases A..E has failed.
C3_StartStopOrder ==
  /\ StartedInOrder
  /\ StoppedInReverseOrder
  /\ stopLog # <<>> =>
       /\ pc \in {"stop", "done"}
       /\ PhaseGExited \/ failed \in {"A", "B", "C", "D", "E"}

C3_Witness ==
  /\ pc = "done"
  /\ exitCode = 0
  /\ SubSeq(startLog, 1, 4) = <<"RG", "CP", "TE", "CA">>
  /\ stopLog = <<"CA", "TE", "CP", "RG">>

\* The supervisor makes the Phase G test of the worker at hand and finds it
\* not alive.
FoundNotAlive ==
  /\ pc = "g_check"
  /\ ~alive[StartOrder[cur]]
  /\ RunStep

C10_SignalInGExitsZero ==
  /\ (pc = "done" /\ sigInG) => (exitCode = 0 /\ AllStopped)
  /\ (pc = "stop" /\ sigInG) => rc = 0

\* C19: run() returns a non-zero value when Phase A failed and another
\* non-zero value when Phase B failed: the exit status of a run that ended
\* on one of the two is not the value returned for the other.
C19_ExitCodeTellsPhase ==
  (pc = "done" /\ failed \in {"A", "B"})
    => /\ exitCode # 0
       /\ \A q \in {"A", "B"} \ {failed} : exitCode # ReturnOnFailure(q)

\* C29: when the monitor loop of Phase G finds a worker not alive and its
\* start() raises, the loop goes on to the next worker or to its sleep, and
\* run() is not made to return by that failure.
C29_FailedRestartKeepsPhaseG ==
  [][(/\ pc = "g_check"
      /\ ~alive[StartOrder[cur]]
      /\ ~alive'[StartOrder[cur]]
      /\ <<pc, cur>>' # <<pc, cur>>) =>
       /\ pc' \in {"g_check", "g_sleep"}
       /\ failed' = None
       /\ rc' = rc]_vars

\* C37: on every path by which run() returns, one worker found not alive
\* during the start after others were started included, none of the four
\* workers is left alive.
C37_NoWorkerLeftAlive == pc = "done" => \A w \in Workers : ~alive[w]

\* The keys of the dictionary the connectivity checker writes in a cycle.
ProberKeys ==
  {"dns_ok", "tls_ok", "opensearch_ok", "aws_ready",
   "last_connectivity_check"}

\* C24: once a signal has set the event, every loop stops at its next
\* iteration: the wait of Phase D sleeps no further interval, the monitor
\* loop of Phase G leaves towards the stopping of the workers, and the
\* connectivity checker begins no further cycle.
C24_ShutdownStopsEveryLoop ==
  [][shutdown =>
       /\ pc = "d_poll" => waited' = waited
       /\ pc = "g_head" => pc' \in {"g_head", "stop"}
       /\ \A k \in ProberKeys : shared_state'[k] = shared_state[k]]_vars

\* The keys of the dictionary by the process that writes them.
GovernorKeys ==
  {"cpu_percent", "ram_percent", "throttle_level", "resource_ok",
   "last_gc_time"}

SupervisorKeys ==
  {"vector_running", "suricata_running", "redis_running",
   "api_server_running", "pipeline_ok", "opensearch_endpoint"}

Changed(keys) == \E k \in keys : shared_state'[k] # shared_state[k]

\* A step of run(): its position, its results or its log of starts and
\* stops moves.
SupervisorStep ==
  <<ctlVars, startLog, stopLog>>' # <<ctlVars, startLog, stopLog>>

\* C32: once the workers are running, each key of the dictionary has one
\* writing process: a step that changes a key of the resource controller
\* is a step of the live controller, not of run(), and changes no key of
\* another process; the same for the connectivity checker; and a step that
\* changes a collaborator-running key, pipeline_ok or the endpoint is a
\* step of run() that changes no key of the two workers.
C32_OneWriterPerKey ==
  [][/\ Changed(GovernorKeys)
          => /\ ~SupervisorStep
             /\ alive["RG"]
             /\ ~Changed(ProberKeys \cup SupervisorKeys)
     /\ Changed(ProberKeys)
          => /\ ~SupervisorStep
             /\ alive["CP"]
             /\ ~Changed(GovernorKeys \cup SupervisorKeys)
     /\ Changed(SupervisorKeys)
          => /\ SupervisorStep
             /\ ~Changed(GovernorKeys \cup ProberKeys)]_vars

\* Every process has written: run() the endpoint, the stack's status and
\* pipeline_ok, the checker its results, the controller a sample above
\* the limits.
C32_Witness ==
  /\ pc = "g_sleep"
  /\ shared_state.pipeline_ok
  /\ shared_state.vector_running
  /\ shared_state.opensearch_endpoint # None
  /\ shared_state.aws_ready
  /\ ~shared_state.resource_ok
  /\ shared_state.cpu_percent > 0

(***************************************************************************)
(* Properties of the connectivity wait, under SpecWait.                    *)
(***************************************************************************)
\* C26: Phase D succeeds iff one of its readings of aws_ready, taken every
\* 10 s for at most 120 s, is true; when none is, Phase D fails and run()
\* returns 1.  Against a domain that is reachable and answers the bulk
\* request with 403, aws_ready is never true, every completed cycle of the
\* checker leaves dns_ok and tls_ok true and opensearch_ok false, and
\* Phase D is never passed.
C26_PhaseDWaitsForReady ==
  [][/\ (pc = "d_poll" /\ pc' # pc) =>
          IF waited < PhaseDMaxWait /\ shared_state.aws_ready
            THEN pc' = After("D") /\ failed' = None
            ELSE /\ waited >= PhaseDMaxWait
                 /\ pc' = "stop"
                 /\ failed' = "D"
                 /\ rc' = 1
     /\ (pc = "d_poll" /\ pc' = pc /\ waited' # waited) =>
          /\ ~shared_state.aws_ready
          /\ waited < PhaseDMaxWait
          /\ waited' = waited + PhaseDPollInterval
     /\ (pc' = "done" /\ failed' = "D") => exitCode' = 1
     /\ remote = "forbids" =>
          /\ ~shared_state'.aws_ready
          /\ shared_state'.last_connectivity_check # 0 =>
               /\ shared_state'.dns_ok
               /\ shared_state'.tls_ok
               /\ ~shared_state'.opensearch_ok
          /\ \A i \in 1..Len(phaseLog') : phaseLog'[i] \notin {"E", "F", "G"}
    ]_vars

\* Against the domain that answers 403, run() has returned 1 after the 120 s
\* of Phase D, the checker having completed a cycle.
C26_Witness ==
  /\ remote = "forbids"
  /\ pc = "done"
  /\ failed = "D"
  /\ exitCode = 1
  /\ waited = PhaseDMaxWait
  /\ shared_state.dns_ok
  /\ shared_state.tls_ok
  /\ ~shared_state.opensearch_ok
  /\ ~shared_state.aws_ready

(***************************************************************************)
(* Properties of the configuration generation, under SpecRender.           *)
(***************************************************************************)
BothRenderedAndValid(got) ==
  /\ got.suricata_generated
  /\ got.suricata_valid
  /\ got.vector_generated
  /\ got.vector_valid

\* C36: Phase B succeeds only if the Suricata file and the Vector file were
\* both rendered and both passed validation; otherwise Phase B fails and
\* run() returns 1.
C36_PhaseBNeedsBothValid ==
  hist.configs.ran
    => IF BothRenderedAndValid(hist.configs.got)
         THEN failed # "B"
         ELSE /\ failed = "B"
              /\ rc = 1
              /\ pc = "done" => exitCode = 1

(***************************************************************************)
(* Properties of the pipeline verification, under SpecVerify.              *)
(***************************************************************************)
\* The packet inspector, the log shipper and the side-buffer.
PipelineCollaborators == {"suricata", "vector", "redis"}

\* C27: Phase E succeeds and sets pipeline_ok only if, at that moment, the
\* packet inspector, the log shipper and the side-buffer are all running
\* and aws_ready is true; pipeline_ok is false as long as Phase E has not
\* succeeded.
C27_PhaseENeedsAllRunning ==
  [][/\ (pc = "phaseE" /\ pc' = After("E")) =>
          /\ \A c \in PipelineCollaborators : instances[c] > 0
          /\ shared_state.aws_ready
          /\ shared_state'.pipeline_ok
     /\ (pc = "phaseE" /\ pc' # After("E")) => ~shared_state'.pipeline_ok
    ]_vars

(***************************************************************************)
(* Properties of the versioned snapshot, under SpecCommit.                 *)
(***************************************************************************)
\* C28: Phase F never ends the run: whatever git does (no repository,
\* nothing to commit, another branch, a failed add, commit or push, a
\* command that cannot be run), the only statement run() goes on to is
\* Phase G, and the value it will return is not set by Phase F.
C28_PhaseFNeverAborts ==
  [][pc = "phaseF" =>
       /\ pc' \in {"phaseF", "phaseG"}
       /\ rc' = rc
       /\ exitCode' = exitCode
       /\ failed' = failed]_vars

\* The push failed in Phase F, after which run() went through Phase G and
\* returned 0 on a signal.
C28_Witness ==
  /\ hist.git.ran
  /\ hist.git.did.status = "dirty"
  /\ hist.git.did.branch = RequiredBranch
  /\ hist.git.did.status_again = "dirty"
  /\ hist.git.did.added
  /\ hist.git.did.committed
  /\ ~hist.git.did.pushed
  /\ ~CommitAndPush(hist.git.did)
  /\ pc = "done"
  /\ exitCode = 0

(***************************************************************************)
(* Properties of pipeline_ok in Phase G, under SpecTrack.                  *)
(***************************************************************************)
\* C40: pipeline_ok tracks the health of the pipeline: when, in Phase G,
\* pipeline_ok is true and aws_ready is false, then eventually pipeline_ok
\* and the ids2_pipeline_ok gauge are false, unless aws_ready has become
\* true again.
C40_PipelineOkTracksHealth ==
  (InPhaseG /\ shared_state.pipeline_ok /\ ~shared_state.aws_ready)
    ~> \/ shared_state.aws_ready
       \/ ~shared_state.pipeline_ok /\ gauges.pipeline_ok = 0

(***************************************************************************)
(* Properties of start(), under SpecStart.                                 *)
(***************************************************************************)
\* The processes of worker w that were created.
Created(log, w) == Cardinality({i \in 1..Len(log) : log[i] = w})

\* C39: each worker has at most one live process at every instant: a
\* process of a worker is created only in a step before which no process
\* of that worker was alive, one at a time, so start() on a worker that is
\* alive creates none and a restart of Phase G creates one only when the
\* previous process is dead.
C39_OneLiveProcessPerWorker ==
  [][\A w \in Workers :
       Created(startLog', w) # Created(startLog, w)
         => /\ ~alive[w]
            /\ alive'[w]
            /\ Created(startLog', w) = Created(startLog, w) + 1]_vars

\* A worker died and the monitor loop has made it a second process, the
\* only one alive.
C39_Witness ==
  /\ InPhaseG
  /\ crashes > 0
  /\ \E w \in Workers : Created(startLog, w) = 2 /\ alive[w]
  /\ \A w \in Workers : alive[w]

(***************************************************************************)
(* Properties of stop(), under SpecStop.                                   *)
(***************************************************************************)
Calls(h) == {h.calls[i] : i \in 1..Len(h.calls)}

\* C25: stop() on a live worker terminates it, joins it with the timeout
\* and kills it only if it has not ended by then; whichever way, the worker
\* is not alive when stop() returns; stop() on a worker that is not alive
\* does nothing.
C25_StopEndsWorker ==
  [][hist'.stop # hist.stop =>
       LET h == hist'.stop IN
         /\ ~alive'[h.worker]
         /\ h.was_alive =>
              /\ Len(h.calls) >= 2
              /\ h.calls[1] = "terminate"
              /\ h.calls[2] = "join"
              /\ "kill" \in Calls(h) <=> ~h.exited
              /\ stopLog' = Append(stopLog, h.worker)
         /\ ~h.was_alive =>
              /\ h.calls = <<>>
              /\ UNCHANGED procVars]_vars

\* stop() has killed a worker that did not end on the terminate, another
\* worker having died on its own.
C25_Witness ==
  /\ hist.stop.was_alive
  /\ ~hist.stop.exited
  /\ "kill" \in Calls(hist.stop)
  /\ crashes = 1
  /\ Len(stopLog) = 1
  /\ Cardinality({w \in Workers : alive[w]}) = 2

(***************************************************************************)
(* Properties of the restarts in Phase G, under SpecRestart.               *)
(***************************************************************************)
\* This step started a worker process.
Restarted == Len(startLog') > Len(startLog)

\* C22: a worker is restarted at most once per turn of the monitor loop (the
\* step that starts it is the test of that worker, and the loop moves on
\* to the next worker or to the sleep), and a worker that died three times
\* within one minute is not started again.
C22_ThirdCrashLeavesDown ==
  [][/\ Restarted =>
          /\ pc = "g_check"
          /\ startLog' = Append(startLog, StartOrder[cur])
          /\ (cur' = cur + 1 \/ pc' = "g_sleep")
     /\ \A w \in Workers : hist.deaths[w].thrice => ~alive'[w]]_vars

(***************************************************************************)
(* Properties of the control API, under SpecApi, SpecRead and SpecHandles. *)
(***************************************************************************)
\* The request threads waiting for a docker-compose command.
Waiting == {t \in RequestThreads : inflight[t] # None}

\* C33: operations on one collaborator handle never overlap: while one
\* operation of the docker manager is in flight a second caller waits, so
\* at most one docker-compose command started through the handle runs at
\* any time.
C33_OneCommandPerHandle == Cardinality(Waiting) <= 1

Entries == {api_log[i] : i \in 1..Len(api_log)}

UnknownServiceAnswer(r) ==
  /\ r.response = Jsonify(400, "error", "Unknown service: " \o r.service)
  /\ r.operation = NoOperation

OperationFailed(r) == r.operation # NoOperation /\ ~r.succeeded

\* C12: a start or stop request for a known service whose call failed is
\* answered 500 with a {status: "error", message} body, and a request is
\* answered 200 only when the call succeeded.
C12_FailureIs500 ==
  \A r \in Entries :
    /\ OperationFailed(r) =>
         /\ r.response.code = 500
         /\ r.response.json
         /\ r.response.status = "error"
    /\ (r.operation # NoOperation /\ r.response.code = 200) => r.succeeded

\* Every call that ran reported success.
CommandsSucceeded ==
  \A r \in Entries :
    (r.operation # NoOperation /\ HasMethod(r.operation)) => r.succeeded

Completed(r) == r.response.code = 200 /\ r.response.status = "success"

\* C13: a start of collaborator C directly followed by a stop of C are both
\* completed, and C runs after the stop iff it ran before the start.
C13_StartThenStopRestores ==
  ( /\ Len(api_log) = 2
    /\ CommandsSucceeded
    /\ api_log[1].route = "start"
    /\ api_log[2].route = "stop"
    /\ api_log[1].service \in Collaborators
    /\ api_log[2].service = api_log[1].service )
  => /\ Completed(api_log[1])
     /\ Completed(api_log[2])
     /\ api_log[2].now = api_log[1].was

\* C14: two start requests in a row for a collaborator that is running are
\* both answered with status success, and one instance of it runs afterwards.
C14_StartTwiceKeepsOne ==
  ( /\ Len(api_log) = 2
    /\ CommandsSucceeded
    /\ api_log[1].route = "start"
    /\ api_log[2].route = "start"
    /\ api_log[1].service \in Collaborators
    /\ api_log[2].service = api_log[1].service
    /\ api_log[1].was = 1 )
  => /\ api_log[1].response.status = "success"
     /\ api_log[2].response.status = "success"
     /\ api_log[2].now = 1

(***************************************************************************)
(* Properties of the endpoint mutator, under SpecMut.                      *)
(***************************************************************************)
\* The last two calls were set_aws_opensearch_endpoint, then reload, and
\* both returned.
SetThenReload ==
  /\ Len(cfg_log) = 2
  /\ cfg_log[1].op = "set" /\ cfg_log[1].returned
  /\ cfg_log[2].op = "reload" /\ cfg_log[2].returned

\* C15: after set_aws_opensearch_endpoint(e) followed by reload(), the
\* endpoint of the configuration in memory is e, for every e.
C15_SetThenReloadGivesEndpoint ==
  SetThenReload => cfgEndpoint = cfg_log[1].endpoint

C15_Witness ==
  /\ SetThenReload
  /\ cfg_log[1].endpoint = ""
  /\ cfgEndpoint = ""
  /\ file[EndpointKey].style = "quoted"

\* C16: a call of set_aws_opensearch_endpoint leaves every key of the file
\* other than the endpoint with the value it had in the file before the
\* call (only the mutator writes the file).
C16_MutatorPreservesOtherKeys ==
  [][\A k \in ConfigKeys : SafeLoad(file'[k]) = SafeLoad(file[k])]_vars

\* C34: after a successful load, the configuration in memory is changed by
\* no operation other than the endpoint mutator and reload: in particular
\* the typed getters, which the constructors of the managers call, leave
\* every value as it was loaded from the file.
C34_GettersLeaveConfig ==
  [][(cfg_pc \in {"loaded", "ready"}) => config' = config]_vars

(***************************************************************************)
(* Properties of the cold start, under SpecGreen.                          *)
(***************************************************************************)
AllGreen ==
  /\ InPhaseG
  /\ shared_state.aws_ready
  /\ shared_state.throttle_level = THROTTLE_NONE
  /\ shared_state.pipeline_ok
  /\ gauges.aws_ready = 1

\* C20: in a cold start in which nothing fails, run() eventually is in
\* Phase G with aws_ready true, throttle_level 0, pipeline_ok true and the
\* aws_ready gauge of the metrics server at 1.
C20_ColdStartAllGreen == <>AllGreen

C20_Witness ==
  /\ AllGreen
  /\ phaseLog = Phases
  /\ shared_state.cpu_percent = GreenSample.cpu
  /\ shared_state.ram_percent = GreenSample.ram
  /\ shared_state.opensearch_endpoint = Endpoint

(***************************************************************************)
(* Properties of the connectivity checker, under SpecProber.               *)
(***************************************************************************)
ReadyIsConjunction ==
  shared_state.aws_ready =
    (shared_state.dns_ok /\ shared_state.tls_ok /\ shared_state.opensearch_ok)

\* C4: at the end of every completed cycle of the connectivity checker
\* (_run_all_checks has returned and the checker sleeps), whatever the DNS,
\* TLS and bulk outcomes of the cycle were, aws_ready equals
\* dns_ok /\ tls_ok /\ opensearch_ok.
C4_ReadyAfterCycle == cpc = "sleep" => ReadyIsConjunction

C4_Witness ==
  /\ cpc = "sleep"
  /\ shared_state.aws_ready
  /\ shared_state.opensearch_ok
  /\ shared_state.last_connectivity_check = 1

\* The bulk step of the cycle at hand is over.
BulkStepDone == cpc \in {"write_ready", "write_time"}

BulkSent == bulk_answer # NoAnswer

C18_BulkSuccessIffStatus ==
  (BulkStepDone /\ BulkSent)
    => (shared_state.opensearch_ok <=> bulk_answer.status \in {200, 201})

\* C35: at every instant, in the middle of a cycle of the connectivity
\* checker and after the checker died in the middle of one included, a
\* reader of the dictionary finds aws_ready true only if dns_ok, tls_ok and
\* opensearch_ok are all true.
C35_ReadyImpliesAllChecks ==
  shared_state.aws_ready
    => /\ shared_state.dns_ok
       /\ shared_state.tls_ok
       /\ shared_state.opensearch_ok

\* C38: the endpoint Phase A has written to the dictionary is the endpoint
\* the connectivity checker probes in its following cycles: a cycle begun
\* once the dictionary holds an endpoint runs the DNS and TLS checks, and
\* does not end at once for want of an endpoint.
C38_ProberUsesDiscoveredEndpoint ==
  [][(/\ cpc = "check"
      /\ cpc' # "check"
      /\ alive'["CP"]
      /\ shared_state.opensearch_endpoint # None)
       => cpc' = "write_dns"]_vars

\* The request got no HTTP answer: aiohttp.ClientError or a timeout.
TransportFailure(answer) ==
  answer.status = 0 /\ answer.body \in BulkFailures

\* C30: when the bulk request of a cycle fails with a transport error or a
\* timeout, the prober sends it again, up to 3 attempts in that cycle, and
\* writes opensearch_ok = false only after the last attempt has failed; a
\* request that got an HTTP answer, 2xx or not, is not sent again.
C30_BulkRetriedOnTransportFailure ==
  [][(cpc = "bulk" /\ bulk_attempt' = bulk_attempt + 1)
       => IF TransportFailure(bulk_answer')
               /\ bulk_attempt' < StopAfterAttempt
            THEN cpc' = "bulk" /\ shared_state' = shared_state
            ELSE /\ cpc' = "write_ready"
                 /\ TransportFailure(bulk_answer')
                      => ~shared_state'.opensearch_ok]_vars

(***************************************************************************)
(* Properties of the resource controller, under SpecThrottle, SpecGov and  *)
(* SpecGc.                                                                 *)
(***************************************************************************)
\* An iteration of the resource controller's loop has been taken.
GovernorSampled == hist'.gc.now # hist.gc.now

\* That iteration forced a collection.
Reclaimed == Len(hist'.gc.reclaims) > Len(hist.gc.reclaims)

\* The forced collections of a history that fell between two clock
\* readings.
ReclaimsBetween(g, from, to) ==
  {i \in 1..Len(g.reclaims) : g.reclaims[i] >= from /\ g.reclaims[i] <= to}

\* C31 as stated: in each governor cycle a forced reclaim happens iff the
\* RAM sample is above 65% and at least 30 s have passed since the last
\* reclaim (30 s exactly included); each reclaim sets the last-reclaim
\* time, two reclaims are never less than 30 s apart, and with RAM rising
\* from 30% to 68% over 60 s exactly one reclaim happens between seconds 30
\* and 90.
C31_AsStated ==
  [][GovernorSampled =>
       /\ Reclaimed <=> (/\ hist'.gc.ram > GcRamMark
                         /\ hist'.gc.since >= GcMinInterval)
       /\ Reclaimed => shared_state'.last_gc_time = hist'.gc.now
       /\ \A i \in 2..Len(hist'.gc.reclaims) :
            hist'.gc.reclaims[i] - hist'.gc.reclaims[i - 1] >= GcMinInterval
       /\ (hist'.gc.ramp /\ hist'.gc.now >= 90)
            => Cardinality(ReclaimsBetween(hist'.gc, 30, 90)) = 1]_vars

\* C31: in each governor cycle a forced reclaim happens iff the RAM sample
\* is above 65% and more than 30 s have passed since the last reclaim; each
\* reclaim sets the last-reclaim time, two reclaims are always more than
\* 30 s apart, and with RAM rising from 30% to 68% over 60 s, sampled every
\* 2 to 3 s, one or two reclaims happen between seconds 30 and 90.
C31_ReclaimRule ==
  [][GovernorSampled =>
       /\ Reclaimed <=> (/\ hist'.gc.ram > GcRamMark
                         /\ hist'.gc.since > GcMinInterval)
       /\ Reclaimed => shared_state'.last_gc_time = hist'.gc.now
       /\ \A i \in 2..Len(hist'.gc.reclaims) :
            hist'.gc.reclaims[i] - hist'.gc.reclaims[i - 1] > GcMinInterval
       /\ (hist'.gc.ramp /\ hist'.gc.now >= 90)
            => Cardinality(ReclaimsBetween(hist'.gc, 30, 90)) \in {1, 2}]_vars

\* RAM went up the ramp and stayed at 68%: a collection was forced at the
\* first sample above 65% and a second one more than 30 s later, before
\* second 90.
C31_Witness ==
  /\ hist.gc.ramp
  /\ hist.gc.now >= 90
  /\ Cardinality(ReclaimsBetween(hist.gc, 30, 90)) = 2
  /\ shared_state.last_gc_time = hist.gc.reclaims[2]

MaxUsage == IF tl_cpu >= tl_ram THEN tl_cpu ELSE tl_ram

OrderedThresholds ==
  /\ limits.throttle_threshold_1 < limits.throttle_threshold_2
  /\ limits.throttle_threshold_2 < limits.throttle_threshold_3

WithinLimits ==
  /\ shared_state.cpu_percent <= limits.max_cpu_percent
  /\ shared_state.ram_percent <= limits.max_ram_percent

C7_CountersNeverDecrease ==
  [][/\ shared_state'.events_processed >= shared_state.events_processed
     /\ shared_state'.events_failed >= shared_state.events_failed]_vars

C7_Witness ==
  /\ startLog = Append(StartOrder, "TE")
  /\ gauges.aws_ready = 1
  /\ shared_state.events_processed = 0
  /\ shared_state.events_failed = 0

(***************************************************************************)
(* Properties of the metrics server, under SpecSteady.                     *)
(***************************************************************************)
\* The gauge named status is 1 when the key is true and 0 when it is false.
ShowsFlag(status, key) == (key => status = 1) /\ (~key => status = 0)

\* Every gauge of metrics carries the value of its key in state.
Mirrors(metrics, state) ==
  /\ metrics.cpu_usage = state.cpu_percent
  /\ metrics.ram_usage = state.ram_percent
  /\ metrics.throttle_level = state.throttle_level
  /\ ShowsFlag(metrics.dns_status, state.dns_ok)
  /\ ShowsFlag(metrics.tls_status, state.tls_ok)
  /\ ShowsFlag(metrics.opensearch_status, state.opensearch_ok)
  /\ ShowsFlag(metrics.aws_ready, state.aws_ready)
  /\ ShowsFlag(metrics.vector_status, state.vector_running)
  /\ ShowsFlag(metrics.suricata_status, state.suricata_running)
  /\ ShowsFlag(metrics.redis_status, state.redis_running)
  /\ ShowsFlag(metrics.pipeline_ok, state.pipeline_ok)

\* C21: after each refresh of the metrics server every gauge equals the
\* value of its key of the dictionary as that refresh read it: the three
\* numbers as stored, the eight flags as 1 for true and 0 for false, a
\* failed probe included.
C21_GaugesMirrorSharedState ==
  [][ExporterRefresh => Mirrors(gauges', shared_state)]_vars

\* A refresh of this metrics server process has shown a failed DNS probe
\* and a passed TLS probe next to a CPU sample.
C21_Witness ==
  /\ alive["TE"]
  /\ gauges.cpu_usage > 0
  /\ Mirrors(gauges, shared_state)
  /\ gauges.dns_status = 0
  /\ gauges.tls_status = 1
  /\ gauges.aws_ready = 0

(***************************************************************************)
(* Properties of the readers of the dictionary, under SpecRead.            *)
(***************************************************************************)
\* This step is a request answered by the control API or a refresh of the
\* metrics server: the five routes change the log of the requests and the
\* collaborators and nothing else does, the refresh changes the gauges and
\* nothing else does in Phase G.
ReaderStep ==
  \/ api_log' # api_log
  \/ instances' # instances
  \/ gauges' # gauges

\* C23: no request to the control API (status, start, stop, config, config
\* update) and no refresh of the metrics server changes the value of any
\* key of the dictionary.
C23_ReadersLeaveSharedState ==
  [][ReaderStep => shared_state' = shared_state]_vars

\* The status route and then a start that succeeded were answered and the
\* metrics server has refreshed, the dictionary holding the governor's
\* sample and what the phases and the checker wrote.
C23_Witness ==
  /\ Len(api_log) = 2
  /\ api_log[1].route = "status"
  /\ api_log[2].route = "start"
  /\ api_log[2].succeeded
  /\ gauges.cpu_usage = GreenSample.cpu
  /\ shared_state =
       [SteadySharedState EXCEPT !.cpu_percent = GreenSample.cpu,
                                 !.ram_percent = GreenSample.ram]

(***************************************************************************)
(* Properties of the configuration load, under SpecCfg.                    *)
(***************************************************************************)
\* A value of the file names an environment variable that is unset or empty.
NamesEmptyEnv ==
  \E k \in ConfigKeys : NamesEnv(k, config[k]) /\ Falsy(env[EnvVarOf[k]])

\* C8: for every configuration value that names an environment variable X,
\* the load succeeds iff X is set and not empty: when X is unset or empty
\* the load fails, the process exits with status 1 and no worker is
\* started; and a load whose placeholder test fails has such a value.
C8_LoadSucceedsIffEnvSet ==
  /\ NamesEmptyEnv =>
       /\ cfg_pc \in {"new", "exited"}
       /\ cfg_pc = "exited" => exitCode = 1
       /\ startLog = <<>>
  /\ (cfg_pc = "exited" /\ failed = "placeholder") => NamesEmptyEnv

====
